---- MODULE Spec2Model ----
(***************************************************************************)
(* Sync-Player: the server's playback state machine (server.js), its room  *)
(* registry and socket handlers, and the viewer's sync handler (client.js).*)
(*                                                                         *)
(* Units.  Wall-clock time (Date.now()) is counted in steps of 500 ms.     *)
(* Positions (videoState.currentTime, seconds in the source) are counted   *)
(* in steps of 5 ms, and playback rates in hundredths, so that             *)
(*   elapsed seconds * rate  =  elapsed steps * rate hundredths            *)
(* is exact integer arithmetic: one time step at rate 1.0 is 100 position  *)
(* steps.                                                                  *)
(***************************************************************************)
EXTENDS Integers, Sequences, FiniteSets, TLC

\* ------------------------------------------------------------------------
\* JavaScript values.  Handlers store payload fields unconverted, so every
\* field that a payload can reach holds a tagged value.
\* ------------------------------------------------------------------------
Num(n) == [t |-> "number", v |-> n]
\* The non-integer number n + 1/2 (used for indices only).
Frac(n) == [t |-> "fraction", v |-> n]
\* The decimal string of the integer n, e.g. "1".
Str(n) == [t |-> "string", v |-> n]
Bool(b) == [t |-> "boolean", v |-> IF b THEN 1 ELSE 0]
Undefined == [t |-> "undefined", v |-> 0]
NaN == [t |-> "NaN", v |-> 0]

\* if (x) ...
Truthy(x) ==
  CASE x.t = "number" -> x.v # 0
    [] x.t = "fraction" -> TRUE
    [] x.t = "string" -> TRUE
    [] x.t = "boolean" -> x.v = 1
    [] OTHER -> FALSE

\* x + n for a number n: undefined + n and NaN + n are NaN.
JsPlus(x, n) == IF x.t = "number" THEN Num(x.v + n) ELSE NaN

\* Math.max(0, x): NaN stays NaN.
JsMax0(x) == IF x.t = "number" THEN Num(IF x.v < 0 THEN 0 ELSE x.v) ELSE NaN

\* a === b
StrictEq(a, b) == a.t = b.t /\ a.t # "NaN" /\ a.v = b.v

\* a < n and a >= n for an integer n, as the relational operators convert:
\* a numeric string compares by value, undefined and NaN compare false.
JsLt(a, n) ==
  CASE a.t \in {"number", "string"} -> a.v < n
    [] a.t = "fraction" -> a.v < n
    [] OTHER -> FALSE
JsGe(a, n) ==
  CASE a.t \in {"number", "string"} -> a.v >= n
    [] a.t = "fraction" -> a.v >= n
    [] OTHER -> FALSE

\* The array index a property key denotes, or -1 when it denotes none
\* (videos[0.5], videos[undefined] and videos[-1] are undefined).
ArrayIndex(a) == IF a.t \in {"number", "string"} /\ a.v >= 0 THEN a.v ELSE -1

\* ------------------------------------------------------------------------
\* Program constants, in the model's units.
\* ------------------------------------------------------------------------
\* (now - lastUpdate) / 1000: position steps per time step at rate 1.0.
PosPerStep == 100
\* setInterval(..., 5000)
TickPeriod == 10
\* setTimeout(..., 500) of set-playlist
RePauseDelay == 1
\* SKIP_SECONDS default 5 s
SKIP_SECONDS == 1000
\* playbackRate || 1.0
DefaultRate == 100
\* setTimeout(() => socket.disconnect(true), 1000)
KickDelay == 2
\* 24 * 60 * 60 * 1000 ms
CSRF_TOKEN_EXPIRY == 172800
\* socketRateLimiter: points: 100, duration: 10 (s), blockDuration: 5 (s)
POINTS == 100
LIMIT_DURATION == 20
BLOCK_DURATION == 10

\* ------------------------------------------------------------------------
\* Bounds of the model.
\* ------------------------------------------------------------------------
\* How long each specification watches the clock, in time steps.
ClockHorizon == 4
S1Horizon == 5
S2Horizon == 13
PlaylistHorizon == 1
LockHorizon == 2
MaxJobs == 2
MaxBack == 1
MaxLog == 2
MaxInbox == 1
MaxClosures == 1
LimitHorizon == 2
\* Events counted beyond the points of the limiter.
MaxOver == 2

Conns == {"s1", "s2", "s3"}
Fingerprints == {"F1", "F2", "F3"}
RoomCodes == {"AAAAAA", "BBBBBB"}
LEGACY == "legacy"
NoRoomCode == ""

VARIABLES
  config,        \* the configuration constants read at startup
  now,           \* Date.now()
  tickIn,        \* time steps until syncInterval fires next
  backs,         \* backward steps of the wall clock so far
  crashed,       \* the process died of an uncaught exception
  connected,     \* io.sockets.sockets
  rooms,         \* rooms Map (server mode); the legacy globals under LEGACY
  socketRoomMap, \* socketId -> roomCode
  ioRooms,       \* socket.io groups: roomCode -> sockets
  verifiedAdminSockets,
  clientDisplayNames,
  detached,      \* videoState objects no longer reachable from their room
  closures,      \* pending set-playlist continuations and re-pause timers
  inbox,         \* events emitted to a tracked socket, not yet handled
  player,        \* client.js state of each tracked socket
  lastEvent,     \* history: the event the last step handled
  log,           \* history: the mutating events handled, with their times
  http           \* the HTTP side: CSRF tokens, FFmpeg jobs, the last exchange

vars == <<config, now, tickIn, backs, crashed, connected, rooms, socketRoomMap,
          ioRooms, verifiedAdminSockets, clientDisplayNames, detached,
          closures, inbox, player, lastEvent, log, http>>

\* ------------------------------------------------------------------------
\* State of a room (class Room) and of the legacy globals.
\* ------------------------------------------------------------------------
NoConn == ""
UndefFp == "<undefined>"

\* Room.videoState / let videoState
InitialVideoState(t) ==
  [isPlaying |-> Bool(TRUE), currentTime |-> Num(0), lastUpdate |-> t,
   audioTrack |-> Num(0), subtitleTrack |-> Num(-1),
   playbackRate |-> Num(DefaultRate)]

\* Room.playlist / const PLAYLIST
\* videos is a JavaScript array: besides its elements it keeps whatever is
\* stored under a key that is no array index (videos[0.5], videos[undefined]).
InitialPlaylist ==
  [videos |-> <<>>, props |-> {}, currentIndex |-> Num(-1),
   mainVideoIndex |-> Num(-1), mainVideoStartTime |-> Num(0),
   preloadMainVideo |-> FALSE]

NoClient == [present |-> FALSE, fingerprint |-> ""]

\* BSL-S2: the file names a viewer can report, the identities (clientId of a
\* page, or the socket id it falls back on), the keys of matchedVideos and of
\* a drift object.
Names == {"a.mp4", "A.MP4", "b.mkv"}
NoName == ""
ClientIds == {"M2", "M3"}
BslIds == ClientIds \cup Conns
DriftIds == ClientIds \cup Fingerprints
MaxIndex == 1
MatchKeys == 0..MaxIndex

\* name.toLowerCase()
ToLowerCase(name) == IF name = "A.MP4" THEN "a.mp4" ELSE name

\* An entry of clientBslStatus (a Map socketId -> status)
NoStatus ==
  [folderSelected |-> FALSE, clientId |-> "", files |-> <<>>,
   matchedVideos |-> [k \in MatchKeys |-> NoName]]

\* persistentBslMatches: clientId -> lower-cased client file -> playlist file
NoBslMatches ==
  [id \in BslIds |-> [name \in {ToLowerCase(n) : n \in Names} |-> NoName]]

\* clientDriftValues (a Map fingerprint -> { playlistIndex: seconds })
NoDrifts == [id \in DriftIds |-> [k \in MatchKeys |-> Undefined]]

\* socket.handshake.address; the three spellings of the local host.
Loopback == {"127.0.0.1", "::1", "::ffff:127.0.0.1"}
Addresses == Loopback \cup {"10.0.0.1"}

\* The record RateLimiterMemory keeps for a key: the points consumed in the
\* current window and the time the record expires; no record is NoRecord.
NoRecord == [consumedPoints |-> 0, expiresAt |-> 0]
NoLimiter == [address \in Addresses |-> NoRecord]

\* encryptData / decryptData under ENCRYPTION_KEY: a ciphertext opens under
\* the key it was made with; null (NoCipher) and a foreign ciphertext
\* decrypt to nothing.
ProcessKey == "K"
NoCipher == [key |-> "", plain |-> ""]
encryptData(plaintext) == [key |-> ProcessKey, plain |-> plaintext]
decryptData(encrypted) ==
  IF encrypted.key = ProcessKey THEN encrypted.plain ELSE ""

\* memory.json as far as the admin fingerprint goes: its encrypted field and
\* whether it has an encoders field.
NoFile == [encrypted |-> NoCipher, encoders |-> FALSE]

\* detectEncoders() between its read of memory.json and the callback of exec
NotDetecting == [pending |-> FALSE, encrypted |-> NoCipher]

\* new Room(code, name, isPrivate, adminFingerprint); the legacy globals
\* carry let memory (its encrypted field), memory.json and detectEncoders.
NewRoom(isPrivate, fp, t) ==
  [exists |-> TRUE, isPrivate |-> isPrivate, adminFingerprint |-> fp,
   memory |-> NoCipher, memoryFile |-> NoFile, detecting |-> NotDetecting,
   limiter |-> NoLimiter,
   adminSocketId |-> NoConn, clients |-> [c \in Conns |-> NoClient],
   playlist |-> InitialPlaylist, videoState |-> InitialVideoState(t),
   clientBslStatus |-> [c \in Conns |-> NoStatus],
   clientDriftValues |-> NoDrifts, bslMatches |-> NoBslMatches]

NoRoom == [NewRoom(FALSE, "", 0) EXCEPT !.exists = FALSE]

\* saveMemory(memory): the whole document is written from the object in
\* memory, which has no encoders field.
saveMemory(globals) ==
  [globals EXCEPT !.memoryFile = [encrypted |-> globals.memory,
                                  encoders |-> FALSE]]

\* setAdminFingerprint(fp)
setAdminFingerprint(globals, fp) ==
  saveMemory([globals EXCEPT !.memory = encryptData(fp)])

AllCodes == RoomCodes \cup {LEGACY}

\* code?.toUpperCase()
ToUpperCase(code) ==
  CASE code = "aaaaaa" -> "AAAAAA"
    [] code = "bbbbbb" -> "BBBBBB"
    [] OTHER -> code

\* getRoom(code): the key the lookup uses, or NoRoomCode when it finds none.
getRoom(code) ==
  LET key == ToUpperCase(code)
  IN IF key \in RoomCodes /\ rooms[key].exists THEN key ELSE NoRoomCode

\* ------------------------------------------------------------------------
\* consolidateTime(state) at Date.now() = t
\* ------------------------------------------------------------------------
RateOrDefault(vs) ==
  IF Truthy(vs.playbackRate) THEN vs.playbackRate ELSE Num(DefaultRate)

Advanced(ct, steps, rate) ==
  IF rate.t = "number" THEN JsPlus(ct, steps * rate.v) ELSE NaN

\* consolidateTime without the write of the anchor.
consolidateTimeKeepAnchor(vs, t) ==
  IF Truthy(vs.isPlaying)
  THEN LET lu == IF vs.lastUpdate > t THEN t ELSE vs.lastUpdate
           elapsed == t - lu
       IN [vs EXCEPT !.currentTime =
                        IF elapsed > 0
                        THEN Advanced(@, elapsed, RateOrDefault(vs))
                        ELSE @]
  ELSE vs

consolidateTime(vs, t) ==
  IF Truthy(vs.isPlaying)
  THEN LET lu == IF vs.lastUpdate > t THEN t ELSE vs.lastUpdate
           elapsed == t - lu
       IN [vs EXCEPT !.currentTime =
                        IF elapsed > 0
                        THEN Advanced(@, elapsed, RateOrDefault(vs))
                        ELSE @,
                     !.lastUpdate = t]
  ELSE [vs EXCEPT !.lastUpdate = t]

\* The body of syncInterval for one videoState.
syncIntervalState(vs, t) ==
  IF Truthy(vs.isPlaying)
  THEN [vs EXCEPT !.currentTime = JsPlus(@, (t - vs.lastUpdate) * PosPerStep),
                  !.lastUpdate = t]
  ELSE vs

\* ------------------------------------------------------------------------
\* Input validation helpers
\* ------------------------------------------------------------------------
isValidInteger(val) == val.t \in {"number", "string"}

isValidNumber(val) == val.t \in {"number", "fraction"}

validatePlaylistIndex(index, playlist) ==
  isValidInteger(index) /\ index.v >= 0 /\ index.v < Len(playlist.videos)

validateTrackIndex(index) == isValidInteger(index) /\ index.v >= -1

validateCurrentTime(time) == isValidNumber(time) /\ time.v >= 0

\* ------------------------------------------------------------------------
\* Events in flight and the effect of a handler
\* ------------------------------------------------------------------------
Live(c) == ~crashed /\ c \in connected

\* io.to(room): the sockets of a socket.io group
Group(code) == IF code \in RoomCodes THEN ioRooms[code] ELSE {}

Msg(ev, vs, n) ==
  [ev |-> ev, vs |-> vs, n |-> n, at |-> now, reply |-> FALSE, status |-> <<>>,
   publicRooms |-> {}]
SyncMsg(vs) == Msg("sync", vs, Undefined)
PlainMsg(ev) == Msg(ev, InitialVideoState(0), Undefined)
\* socket.emit('admin-auth-result', { success })
AuthResult(success) == Msg("admin-auth-result", InitialVideoState(0), Bool(success))
Emit(to, msg) == [to |-> to, msg |-> msg]

\* What a handler leaves behind; Eff0 is "nothing happened".
Eff0 ==
  [rooms |-> rooms, socketRoomMap |-> socketRoomMap, ioRooms |-> ioRooms,
   verified |-> verifiedAdminSockets, names |-> clientDisplayNames,
   detached |-> detached, closures |-> closures, connected |-> connected,
   emits |-> <<>>, crash |-> FALSE, logged |-> FALSE, fits |-> TRUE]

Outgoing(c, emits) ==
  LET mine == SelectSeq(emits, LAMBDA e : c \in e.to /\ e.msg.ev \in config.trackEvents)
  IN [i \in 1..Len(mine) |-> mine[i].msg]

\* The history entry of an event: its name, sender and the payload fields
\* the properties read.
NoCtl ==
  [isObject |-> TRUE, action |-> "", state |-> Undefined, direction |-> "",
   seconds |-> Undefined, time |-> Undefined, type |-> "",
   trackIndex |-> Undefined, rate |-> Undefined, isPlaying |-> Undefined,
   currentTime |-> Undefined]

Event(ev, c) ==
  [ev |-> ev, c |-> c, ctl |-> NoCtl, a |-> Undefined, b |-> Undefined,
   s |-> "", fp |-> "", ref |-> 0, wellFormed |-> TRUE, blocked |-> FALSE,
   accepted |-> FALSE, emits |-> <<>>, items |-> <<>>]

LogEntry(e) == [ev |-> e.ev, at |-> now, action |-> e.ctl.action,
                arg |-> IF e.ev = "control"
                        THEN (IF e.ctl.action = "rate" THEN e.ctl.rate
                              ELSE IF e.ctl.action = "seek" THEN e.ctl.time
                              ELSE e.ctl.state)
                        ELSE e.a]

NoDetached == [used |-> FALSE, vs |-> InitialVideoState(0)]

\* A replaced videoState object lives as long as a closure refers to it.
Collect(det, cls) ==
  [k \in DOMAIN det |->
     IF \E i \in 1..Len(cls) : cls[i].ref = k THEN det[k] ELSE NoDetached]

\* The codes of all the rooms of the registry, private ones included.
getAllRooms(registry) == {code \in RoomCodes : registry[code].exists}

\* getPublicRooms(): the codes of the rooms listed
getPublicRooms(registry) ==
  {code \in RoomCodes : registry[code].exists /\ ~registry[code].isPrivate}

\* io.emit('rooms-updated', getPublicRooms()) is the last statement of every
\* handler that sends it: the list is taken from the registry the handler
\* leaves behind.
Sent(eff) ==
  [i \in 1..Len(eff.emits) |->
     IF eff.emits[i].msg.ev = "rooms-updated"
     THEN [eff.emits[i] EXCEPT !.msg.publicRooms = getPublicRooms(eff.rooms)]
     ELSE eff.emits[i]]

\* One step of the server: a handler ran to its end (or threw).
Apply(e, eff) ==
  /\ eff.fits
  /\ Len(eff.closures) <= MaxClosures
  /\ \A c \in config.tracked :
        Len(inbox[c]) + Len(Outgoing(c, Sent(eff))) <= config.inbox
  /\ eff.logged => Len(log) < MaxLog
  /\ rooms' = eff.rooms
  /\ socketRoomMap' = eff.socketRoomMap
  /\ ioRooms' = eff.ioRooms
  /\ verifiedAdminSockets' = eff.verified
  /\ clientDisplayNames' = eff.names
  /\ detached' = Collect(eff.detached, eff.closures)
  /\ closures' = eff.closures
  /\ connected' = eff.connected
  /\ crashed' = eff.crash
  /\ inbox' = [c \in Conns |->
                 IF c \in config.tracked /\ ~eff.crash
                 THEN inbox[c] \o Outgoing(c, Sent(eff))
                 ELSE inbox[c]]
  /\ lastEvent' = [e EXCEPT !.accepted = eff.logged,
                            !.emits = IF eff.crash THEN <<>> ELSE Sent(eff)]
  /\ log' = IF eff.logged THEN Append(log, LogEntry(e)) ELSE log
  /\ UNCHANGED <<config, now, tickIn, backs, player, http>>

\* ------------------------------------------------------------------------
\* Socket.io rate limiting middleware
\* ------------------------------------------------------------------------
\* Whether the record of a key is gone at time t: it is dropped when it
\* expires, and an event of the very time step of the expiry comes before or
\* after that.
Expired(rec, t) ==
  IF rec.consumedPoints = 0 THEN {TRUE}
  ELSE IF t > rec.expiresAt THEN {TRUE}
  ELSE IF t = rec.expiresAt THEN {TRUE, FALSE}
  ELSE {FALSE}

\* socketRateLimiter.consume(clientIp) as RateLimiterMemory does it with the
\* options above: a new window opens with the first event, every event
\* counts, and the event that first exceeds the points blocks the key for
\* the block duration. The promise rejects when the count exceeds the points.
Consumed(rec, t, expired) ==
  LET counted == IF expired
                 THEN [consumedPoints |-> 1, expiresAt |-> t + LIMIT_DURATION]
                 ELSE [rec EXCEPT !.consumedPoints = @ + 1]
  IN IF counted.consumedPoints = POINTS + 1
     THEN [counted EXCEPT !.expiresAt = t + BLOCK_DURATION]
     ELSE counted

RateLimitError(c) == <<Emit({c}, PlainMsg("rate-limit-error"))>>

\* The middleware that calls next() after the rate-limit-error as well.
PacketThrough(c, e, eff) ==
  LET address == config.address[c]
      rec == rooms[LEGACY].limiter[address]
  IN /\ Live(c)
     /\ IF address \in Loopback THEN Apply(e, eff)
        ELSE \E expired \in Expired(rec, now) :
               LET res == Consumed(rec, now, expired) IN
               /\ res.consumedPoints <= POINTS + MaxOver
               /\ IF res.consumedPoints <= POINTS
                  THEN Apply(e, [eff EXCEPT
                                   !.rooms[LEGACY].limiter[address] = res])
                  ELSE Apply(e, [eff EXCEPT
                                   !.rooms[LEGACY].limiter[address] = res,
                                   !.emits = RateLimitError(c) \o @])

\* socket.use(async (packet, next) => ...) followed, when it calls next(),
\* by the handler of the event, which leaves eff.
Packet(c, e, eff) ==
  LET address == config.address[c]
      rec == rooms[LEGACY].limiter[address]
  IN /\ Live(c)
     /\ IF address \in Loopback THEN Apply(e, eff)
        ELSE \E expired \in Expired(rec, now) :
               LET res == Consumed(rec, now, expired) IN
               /\ res.consumedPoints <= POINTS + MaxOver
               /\ IF res.consumedPoints <= POINTS
                  THEN Apply(e, [eff EXCEPT
                                   !.rooms[LEGACY].limiter[address] = res])
                  ELSE Apply(e, [Eff0 EXCEPT
                                   !.rooms[LEGACY].limiter[address] = res,
                                   !.emits = RateLimitError(c)])

\* ------------------------------------------------------------------------
\* Admin authorization middleware
\* ------------------------------------------------------------------------
ADMIN_ONLY_EVENTS ==
  {"set-playlist", "playlist-reorder", "playlist-jump", "track-change",
   "skip-to-next-video", "bsl-admin-register", "bsl-check-request",
   "bsl-get-status", "bsl-manual-match", "bsl-set-drift", "set-client-name",
   "get-client-list", "set-client-display-name", "delete-room", "create-room"}

\* The gate without the comparison with room.adminSocketId: any socket
\* mapped to an existing room passes.
isSocketInRoom(socketId) ==
  IF config.SERVER_MODE
  THEN /\ socketRoomMap[socketId] # NoRoomCode
       /\ getRoom(socketRoomMap[socketId]) # NoRoomCode
  ELSE ~config.ADMIN_FINGERPRINT_LOCK \/ socketId \in verifiedAdminSockets

isSocketAdmin(socketId) ==
  IF config.SERVER_MODE
  THEN LET code == getRoom(socketRoomMap[socketId])
       IN /\ socketRoomMap[socketId] # NoRoomCode
          /\ code # NoRoomCode
          /\ rooms[code].adminSocketId = socketId
  ELSE ~config.ADMIN_FINGERPRINT_LOCK \/ socketId \in verifiedAdminSockets

\* socket.use((packet, next) => ...): TRUE when the event is not passed on.
AdminBlocked(c, eventName) ==
  /\ eventName \in ADMIN_ONLY_EVENTS
  /\ eventName \notin {"create-room", "bsl-admin-register"}
  /\ ~isSocketAdmin(c)

AdminErrorEff(c) == [Eff0 EXCEPT !.emits = <<Emit({c}, PlainMsg("admin-error"))>>]

\* The room a shared handler works on (room.playlist / PLAYLIST, ...) and
\* the sockets its broadcasts reach (io.to(roomCode) / io).
TargetOf(c) ==
  IF config.SERVER_MODE THEN getRoom(socketRoomMap[c]) ELSE LEGACY

AudienceOf(c) ==
  IF config.SERVER_MODE THEN Group(socketRoomMap[c]) ELSE connected

\* ------------------------------------------------------------------------
\* socket.on('control')
\* ------------------------------------------------------------------------
MaxDetached == 1
DetIds == 1..MaxDetached

FreeIds(det) == {k \in DetIds : ~det[k].used}

\* room.videoState = {...}: the old object stays reachable from the
\* set-playlist continuations and timers that captured it.
Captured(cls, key) == {i \in 1..Len(cls) : cls[i].key = key /\ cls[i].ref = 0}

ReplaceObject(eff, key, vs) ==
  IF Captured(eff.closures, key) = {}
  THEN [eff EXCEPT !.rooms[key].videoState = vs]
  ELSE IF FreeIds(eff.detached) = {}
  THEN [eff EXCEPT !.fits = FALSE]
  ELSE LET k == CHOOSE x \in FreeIds(eff.detached) :
                   \A y \in FreeIds(eff.detached) : x <= y
       IN [eff EXCEPT
             !.rooms[key].videoState = vs,
             !.detached[k] = [used |-> TRUE, vs |-> eff.rooms[key].videoState],
             !.closures = [i \in 1..Len(@) |->
                             IF i \in Captured(@, key)
                             THEN [@[i] EXCEPT !.ref = k] ELSE @[i]]]

ControlInvalid(data) ==
  \/ ~data.isObject
  \/ data.currentTime # Undefined /\ ~validateCurrentTime(data.currentTime)
  \/ data.action = "seek" /\ ~validateCurrentTime(data.time)
  \/ data.action = "selectTrack" /\ ~validateTrackIndex(data.trackIndex)

ControlActions == {"playpause", "skip", "seek", "selectTrack", "rate"}

SkipBy(data) ==
  LET direction == IF data.direction = "forward" THEN 1 ELSE -1
      seconds == IF Truthy(data.seconds) THEN data.seconds ELSE Num(SKIP_SECONDS)
  IN IF seconds.t \in {"number", "string"}
     THEN Num(direction * seconds.v) ELSE NaN

ControlAction(vs, data, t) ==
  CASE data.action = "playpause" ->
         [consolidateTime(vs, t) EXCEPT !.isPlaying = data.state]
    [] data.action = "skip" ->
         [consolidateTime(vs, t) EXCEPT
            !.currentTime = IF SkipBy(data).t = "number"
                            THEN JsMax0(JsPlus(@, SkipBy(data).v)) ELSE NaN]
    [] data.action = "seek" ->
         [vs EXCEPT !.currentTime = data.time, !.lastUpdate = t]
    [] data.action = "selectTrack" ->
         [consolidateTime(vs, t) EXCEPT
            !.audioTrack = IF data.type = "audio" THEN data.trackIndex ELSE @,
            !.subtitleTrack = IF data.type = "subtitle" THEN data.trackIndex ELSE @]
    [] data.action = "rate" ->
         [consolidateTime(vs, t) EXCEPT !.playbackRate = data.rate]
    [] OTHER -> vs

DirectSync(vs, data, t) ==
  [isPlaying |-> data.isPlaying, currentTime |-> data.currentTime,
   lastUpdate |-> t, audioTrack |-> vs.audioTrack,
   subtitleTrack |-> vs.subtitleTrack, playbackRate |-> vs.playbackRate]

ControlIsAdmin(c, key) ==
  IF config.SERVER_MODE THEN rooms[key].adminSocketId = c
  ELSE c \in verifiedAdminSockets

ControlEff(c, data) ==
  LET key == TargetOf(c) IN
  IF ControlInvalid(data) \/ key = NoRoomCode THEN Eff0
  ELSE IF config.CLIENT_CONTROLS_DISABLED /\ ~ControlIsAdmin(c, key)
  THEN IF config.SERVER_MODE THEN Eff0
       ELSE [Eff0 EXCEPT !.emits = <<Emit({c}, PlainMsg("control-rejected"))>>]
  ELSE IF ~config.SERVER_MODE /\ config.CLIENT_SYNC_DISABLED /\ data.action = ""
  THEN Eff0
  ELSE IF data.action \in ControlActions
  THEN LET vs == ControlAction(rooms[key].videoState, data, now)
       IN [Eff0 EXCEPT !.rooms[key].videoState = vs,
                       !.emits = <<Emit(AudienceOf(c), SyncMsg(vs))>>,
                       !.logged = TRUE]
  ELSE IF data.action # "" THEN Eff0
  ELSE LET vs == DirectSync(rooms[key].videoState, data, now)
       IN [ReplaceObject(Eff0, key, vs) EXCEPT
             !.emits = <<Emit(AudienceOf(c), SyncMsg(vs))>>,
             !.logged = TRUE]

Control(c, data) ==
  /\ Live(c)
  /\ Apply([Event("control", c) EXCEPT !.ctl = data], ControlEff(c, data))

\* ------------------------------------------------------------------------
\* socket.on('request-sync')
\* ------------------------------------------------------------------------
RequestSyncEff(c) ==
  LET key == IF TargetOf(c) = NoRoomCode THEN LEGACY ELSE TargetOf(c)
  IN [Eff0 EXCEPT !.emits =
        <<Emit({c}, [SyncMsg(rooms[key].videoState) EXCEPT !.reply = TRUE])>>]

RequestSync(c) ==
  /\ Live(c)
  /\ Apply(Event("request-sync", c), RequestSyncEff(c))

\* ------------------------------------------------------------------------
\* socket.on('set-playlist'): an async handler.  It runs to its first
\* await (getTracksForFile of a local item), is resumed when the probe
\* settles, and after the last item commits the playlist.  With autoplay
\* off the commit arms a timer that pauses again 500 ms later.
\* ------------------------------------------------------------------------
NoPayload ==
  [isObject |-> FALSE, hasPlaylist |-> FALSE, playlist |-> <<>>,
   mainVideoIndex |-> Undefined, startTime |-> Undefined]

\* A playlist item of the payload; id 0 is the hole a reorder can leave.
Item(id, hasFilename, isExternal) ==
  [id |-> id, hasFilename |-> hasFilename, isExternal |-> isExternal,
   selectedAudioTrack |-> Undefined, selectedSubtitleTrack |-> Undefined]
UndefItem == Item(0, FALSE, FALSE)

Closure(kind, c, key, raw, data, left) ==
  [kind |-> kind, c |-> c, key |-> key, raw |-> raw, ref |-> 0,
   orphan |-> FALSE, data |-> data, pos |-> 1, left |-> left]

\* targetVideoState of a running handler: the object it captured.
TargetVs(eff, cl) ==
  IF cl.ref = 0 THEN eff.rooms[cl.key].videoState ELSE eff.detached[cl.ref].vs

WithVs(eff, cl, vs) ==
  IF cl.ref = 0 THEN [eff EXCEPT !.rooms[cl.key].videoState = vs]
  ELSE [eff EXCEPT !.detached[cl.ref].vs = vs]

ClosureAudience(cl) ==
  IF config.SERVER_MODE THEN Group(cl.raw) ELSE connected

\* The loop over data.playlist from item i on: where it stops.
RECURSIVE Scan(_, _, _)
Scan(items, i, awaited) ==
  IF i > Len(items) THEN [kind |-> "done", pos |-> i]
  ELSE IF ~awaited /\ ~items[i].isExternal THEN [kind |-> "await", pos |-> i]
  ELSE IF ~items[i].hasFilename THEN [kind |-> "crash", pos |-> i]
  ELSE Scan(items, i + 1, FALSE)

SetPlaylistCommit(eff, cl) ==
  LET data == cl.data
      vs0 == TargetVs(eff, cl)
      firstVideo == data.playlist[1]
      vs1 == IF Len(data.playlist) > 0
             THEN [vs0 EXCEPT
                     !.audioTrack =
                        IF firstVideo.selectedAudioTrack # Undefined
                        THEN firstVideo.selectedAudioTrack ELSE Num(0),
                     !.subtitleTrack =
                        IF firstVideo.selectedSubtitleTrack # Undefined
                        THEN firstVideo.selectedSubtitleTrack ELSE Num(-1)]
             ELSE vs0
      vs2 == [vs1 EXCEPT
                !.currentTime = IF Truthy(data.startTime)
                                THEN data.startTime ELSE Num(0),
                !.lastUpdate = now,
                !.isPlaying = Bool(config.VIDEO_AUTOPLAY)]
      targetPlaylist ==
        [videos |-> data.playlist, props |-> {},
         mainVideoIndex |-> data.mainVideoIndex,
         mainVideoStartTime |-> data.startTime, currentIndex |-> Num(0),
         preloadMainVideo |-> TRUE]
      e1 == IF cl.orphan THEN eff
            ELSE [eff EXCEPT !.rooms[cl.key].playlist = targetPlaylist]
  IN [WithVs(e1, cl, vs2) EXCEPT
        !.emits = <<Emit(ClosureAudience(cl), PlainMsg("playlist-update")),
                    Emit(ClosureAudience(cl), SyncMsg(vs2)),
                    Emit({cl.c}, PlainMsg("playlist-set"))>>,
        !.closures = IF config.VIDEO_AUTOPLAY THEN @
                     ELSE Append(@, [cl EXCEPT !.kind = "repause",
                                               !.left = RePauseDelay]),
        !.logged = TRUE]

SetPlaylistRun(eff, cl, awaited) ==
  IF ~cl.data.isObject \/ ~cl.data.hasPlaylist
  THEN [eff EXCEPT !.crash = TRUE]
  ELSE LET r == Scan(cl.data.playlist, cl.pos, awaited)
       IN CASE r.kind = "crash" -> [eff EXCEPT !.crash = TRUE]
            [] r.kind = "await" ->
                 [eff EXCEPT !.closures = Append(@, [cl EXCEPT !.pos = r.pos])]
            [] OTHER -> SetPlaylistCommit(eff, cl)

SetPlaylistEff(c, data) ==
  LET key == TargetOf(c) IN
  IF AdminBlocked(c, "set-playlist") THEN AdminErrorEff(c)
  ELSE IF key = NoRoomCode THEN Eff0
  ELSE IF config.SERVER_MODE /\ rooms[key].adminSocketId # c
  THEN [Eff0 EXCEPT !.emits = <<Emit({c}, PlainMsg("playlist-set"))>>]
  ELSE SetPlaylistRun(Eff0,
         Closure("resume", c, key, socketRoomMap[c], data, 0), FALSE)

SetPlaylist(c, data) ==
  /\ Live(c)
  /\ Apply([Event("set-playlist", c) EXCEPT
              !.a = data.startTime, !.b = data.mainVideoIndex,
              !.items = data.playlist, !.s = TargetOf(c),
              !.wellFormed = data.isObject /\ data.hasPlaylist
                 /\ \A i \in 1..Len(data.playlist) : data.playlist[i].hasFilename,
              !.blocked = AdminBlocked(c, "set-playlist")],
           SetPlaylistEff(c, data))

Without(cls, i) == SubSeq(cls, 1, i - 1) \o SubSeq(cls, i + 1, Len(cls))

\* getTracksForFile settled: the handler continues after its await.
SetPlaylistResume(i) ==
  /\ ~crashed
  /\ i \in 1..Len(closures)
  /\ closures[i].kind = "resume"
  /\ Apply([Event("set-playlist:resume", closures[i].c) EXCEPT
              !.a = closures[i].data.startTime,
              !.b = closures[i].data.mainVideoIndex,
              !.items = closures[i].data.playlist,
              !.s = closures[i].key, !.ref = closures[i].ref],
           SetPlaylistRun([Eff0 EXCEPT !.closures = Without(@, i)],
                          closures[i], TRUE))

\* setTimeout(() => { targetVideoState.isPlaying = false; ... }, 500)
RePauseEff(i) ==
  LET cl == closures[i]
      vs == [TargetVs(Eff0, cl) EXCEPT !.isPlaying = Bool(FALSE)]
  IN [WithVs([Eff0 EXCEPT !.closures = Without(@, i)], cl, vs) EXCEPT
        !.emits = <<Emit(ClosureAudience(cl), SyncMsg(vs))>>]

RePause(i) ==
  /\ ~crashed
  /\ i \in 1..Len(closures)
  /\ closures[i].kind = "repause"
  /\ closures[i].left = 0
  /\ Apply([Event("set-playlist:timer", closures[i].c) EXCEPT
              !.s = closures[i].key, !.ref = closures[i].ref],
           RePauseEff(i))

\* ------------------------------------------------------------------------
\* Playlist navigation: skip-to-next-video, playlist-next, playlist-jump,
\* track-change, playlist-reorder
\* ------------------------------------------------------------------------
\* The room an admin handler works on after its own checks
\* (socketRoomMap, getRoom, room.adminSocketId !== socket.id), or NoRoomCode.
AdminTarget(c) ==
  IF config.SERVER_MODE /\ TargetOf(c) # NoRoomCode
     /\ rooms[TargetOf(c)].adminSocketId # c
  THEN NoRoomCode ELSE TargetOf(c)

\* videos[a]
ReadVideo(pl, a) ==
  IF ArrayIndex(a) >= 0
  THEN IF ArrayIndex(a) < Len(pl.videos)
       THEN pl.videos[ArrayIndex(a) + 1] ELSE UndefItem
  ELSE IF \E p \in pl.props : p.key = a
  THEN (CHOOSE p \in pl.props : p.key = a).item ELSE UndefItem

\* videos[a] = item, for a key that passed the range test of the caller
WriteVideo(pl, a, item) ==
  IF ArrayIndex(a) >= 0
  THEN [pl EXCEPT !.videos[ArrayIndex(a) + 1] = item]
  ELSE [pl EXCEPT !.props = {p \in @ : p.key # a} \cup
                            (IF item = UndefItem THEN {}
                             ELSE {[key |-> a, item |-> item]})]

\* video.selectedAudioTrack !== undefined ? video.selectedAudioTrack : 0, ...
WithTracksOf(vs, video) ==
  [vs EXCEPT
     !.audioTrack = IF video.selectedAudioTrack # Undefined
                    THEN video.selectedAudioTrack ELSE Num(0),
     !.subtitleTrack = IF video.selectedSubtitleTrack # Undefined
                       THEN video.selectedSubtitleTrack ELSE Num(-1)]

\* a % b of JavaScript for b > 0: the sign of the dividend.
JsRem(a, b) == IF a >= 0 THEN a % b ELSE 0 - ((0 - a) % b)

\* (currentIndex + 1) % videos.length: "1" + 1 is the string "11".
NextIndexOf(currentIndex, len) ==
  CASE currentIndex.t = "number" -> Num(JsRem(currentIndex.v + 1, len))
    [] currentIndex.t = "string" ->
         Num(JsRem(IF currentIndex.v >= 0 THEN currentIndex.v * 10 + 1
                   ELSE currentIndex.v * 10 - 1, len))
    [] currentIndex.t = "fraction" ->
         IF currentIndex.v >= -1 THEN Frac(JsRem(currentIndex.v + 1, len))
         ELSE Frac(JsRem(currentIndex.v + 2, len) - 1)
    [] OTHER -> NaN

PlaylistEmits(c, vs, index, withList) ==
  <<Emit(AudienceOf(c), SyncMsg(vs)),
    Emit(AudienceOf(c), Msg("playlist-position", vs, index))>>
  \o (IF withList THEN <<Emit(AudienceOf(c), PlainMsg("playlist-update"))>>
      ELSE <<>>)

SkipToNextVideoEff(c) ==
  LET key == AdminTarget(c) IN
  IF AdminBlocked(c, "skip-to-next-video") THEN AdminErrorEff(c)
  ELSE IF key = NoRoomCode \/ Len(rooms[key].playlist.videos) = 0 THEN Eff0
  ELSE LET pl == rooms[key].playlist
           nextIndex == NextIndexOf(pl.currentIndex, Len(pl.videos))
           video == ReadVideo(pl, nextIndex)
           vs == [WithTracksOf(rooms[key].videoState, video) EXCEPT
                    !.currentTime = Num(0), !.lastUpdate = now]
       IN IF video = UndefItem THEN [Eff0 EXCEPT !.crash = TRUE]
          ELSE [Eff0 EXCEPT !.rooms[key].playlist.currentIndex = nextIndex,
                            !.rooms[key].videoState = vs,
                            !.emits = PlaylistEmits(c, vs, nextIndex, TRUE),
                            !.logged = TRUE]

SkipToNextVideo(c) ==
  /\ Live(c)
  /\ Apply([Event("skip-to-next-video", c) EXCEPT
              !.blocked = AdminBlocked(c, "skip-to-next-video")],
           SkipToNextVideoEff(c))

PlaylistNextEff(c, nextIndex) ==
  LET key == TargetOf(c) IN
  IF key = NoRoomCode THEN Eff0
  ELSE LET pl == rooms[key].playlist
           video == ReadVideo(pl, nextIndex)
           vs == [(IF video # UndefItem
                   THEN WithTracksOf(rooms[key].videoState, video)
                   ELSE rooms[key].videoState) EXCEPT !.lastUpdate = now]
       IN [Eff0 EXCEPT !.rooms[key].playlist.currentIndex = nextIndex,
                       !.rooms[key].videoState = vs,
                       !.emits = PlaylistEmits(c, vs, nextIndex, FALSE),
                       !.logged = TRUE]

PlaylistNext(c, nextIndex) ==
  /\ Live(c)
  /\ Apply([Event("playlist-next", c) EXCEPT !.a = nextIndex],
           PlaylistNextEff(c, nextIndex))

PlaylistJumpEff(c, index) ==
  LET key == AdminTarget(c) IN
  IF AdminBlocked(c, "playlist-jump") THEN AdminErrorEff(c)
  ELSE IF ~isValidInteger(index) \/ key = NoRoomCode THEN Eff0
  ELSE IF ~validatePlaylistIndex(index, rooms[key].playlist) THEN Eff0
  ELSE LET video == ReadVideo(rooms[key].playlist, index)
           vs == [WithTracksOf(rooms[key].videoState, video) EXCEPT
                    !.currentTime = Num(0), !.lastUpdate = now]
       IN IF video = UndefItem THEN [Eff0 EXCEPT !.crash = TRUE]
          ELSE [Eff0 EXCEPT !.rooms[key].playlist.currentIndex = index,
                            !.rooms[key].videoState = vs,
                            !.emits = PlaylistEmits(c, vs, index, TRUE),
                            !.logged = TRUE]

PlaylistJump(c, index) ==
  /\ Live(c)
  /\ Apply([Event("playlist-jump", c) EXCEPT
              !.a = index, !.blocked = AdminBlocked(c, "playlist-jump")],
           PlaylistJumpEff(c, index))

\* The payload of track-change.
TrackChangeData(videoIndex, type, trackIndex) ==
  [isObject |-> TRUE, videoIndex |-> videoIndex, type |-> type,
   trackIndex |-> trackIndex]
NoTrackChange == [TrackChangeData(Undefined, "", Undefined) EXCEPT !.isObject = FALSE]

TrackChangeEff(c, data) ==
  LET key == AdminTarget(c) IN
  IF AdminBlocked(c, "track-change") THEN AdminErrorEff(c)
  ELSE IF ~data.isObject \/ key = NoRoomCode THEN Eff0
  ELSE IF ~isValidInteger(data.videoIndex) \/ data.videoIndex.v < 0 THEN Eff0
  ELSE IF data.type \notin {"audio", "subtitle"} THEN Eff0
  ELSE IF ~validateTrackIndex(data.trackIndex) THEN Eff0
  ELSE IF ~(Len(rooms[key].playlist.videos) > data.videoIndex.v) THEN Eff0
  ELSE LET pl == rooms[key].playlist
           video == ReadVideo(pl, data.videoIndex)
           changed == IF data.type = "audio"
                      THEN [video EXCEPT !.selectedAudioTrack = data.trackIndex]
                      ELSE [video EXCEPT !.selectedSubtitleTrack = data.trackIndex]
           current == StrictEq(data.videoIndex, pl.currentIndex)
           vs == [rooms[key].videoState EXCEPT
                    !.audioTrack = IF data.type = "audio"
                                   THEN data.trackIndex ELSE @,
                    !.subtitleTrack = IF data.type = "subtitle"
                                      THEN data.trackIndex ELSE @,
                    !.lastUpdate = now]
       IN IF video = UndefItem THEN [Eff0 EXCEPT !.crash = TRUE]
          ELSE [Eff0 EXCEPT
                  !.rooms[key].playlist = WriteVideo(pl, data.videoIndex, changed),
                  !.rooms[key].videoState = IF current THEN vs ELSE @,
                  !.emits = (IF current
                             THEN <<Emit(AudienceOf(c), SyncMsg(vs))>> ELSE <<>>)
                            \o <<Emit(AudienceOf(c), PlainMsg("track-change"))>>,
                  !.logged = TRUE]

TrackChange(c, data) ==
  /\ Live(c)
  /\ Apply([Event("track-change", c) EXCEPT
              !.a = data.videoIndex, !.b = data.trackIndex, !.s = data.type,
              !.wellFormed = data.isObject,
              !.blocked = AdminBlocked(c, "track-change")],
           TrackChangeEff(c, data))

\* The payload of playlist-reorder: an object with two fields, or nothing.
Reorder(fromIndex, toIndex) ==
  [isObject |-> TRUE, fromIndex |-> fromIndex, toIndex |-> toIndex]
NoReorder == [Reorder(Undefined, Undefined) EXCEPT !.isObject = FALSE]

Swapped(x, a, b) ==
  IF StrictEq(x, a) THEN b ELSE IF StrictEq(x, b) THEN a ELSE x

PlaylistReorderEff(c, data) ==
  LET key == AdminTarget(c) IN
  IF AdminBlocked(c, "playlist-reorder") THEN AdminErrorEff(c)
  ELSE IF ~data.isObject THEN [Eff0 EXCEPT !.crash = TRUE]
  ELSE IF key = NoRoomCode THEN Eff0
  ELSE LET pl == rooms[key].playlist
           len == Len(pl.videos)
           fromIndex == data.fromIndex
           toIndex == data.toIndex
           first == ReadVideo(pl, toIndex)
           second == ReadVideo(pl, fromIndex)
           swapped == WriteVideo(WriteVideo(pl, fromIndex, first), toIndex, second)
       IN IF JsLt(fromIndex, 0) \/ JsGe(fromIndex, len)
             \/ JsLt(toIndex, 0) \/ JsGe(toIndex, len)
          THEN Eff0
          ELSE [Eff0 EXCEPT
                  !.rooms[key].playlist =
                     [swapped EXCEPT
                        !.mainVideoIndex = Swapped(@, fromIndex, toIndex),
                        !.currentIndex = Swapped(@, fromIndex, toIndex)],
                  !.emits = <<Emit(AudienceOf(c), PlainMsg("playlist-update"))>>,
                  !.logged = TRUE]

PlaylistReorder(c, data) ==
  /\ Live(c)
  /\ Apply([Event("playlist-reorder", c) EXCEPT
              !.a = data.fromIndex, !.b = data.toIndex,
              !.wellFormed = data.isObject,
              !.blocked = AdminBlocked(c, "playlist-reorder")],
           PlaylistReorderEff(c, data))

\* ------------------------------------------------------------------------
\* Room registry: create-room, join-room, leave-room, delete-room,
\* disconnect
\* ------------------------------------------------------------------------
\* The payload of join-room and delete-room; roomCode "" and fingerprint
\* UndefFp stand for a missing field.
RoomData(roomCode, fingerprint) ==
  [isObject |-> TRUE, roomCode |-> roomCode, fingerprint |-> fingerprint,
   isPrivate |-> Undefined]
NoRoomData == [RoomData(NoRoomCode, UndefFp) EXCEPT !.isObject = FALSE]

\* Room.isAdmin(fingerprint): true, false, or the TypeError of
\* fingerprint.substring on a missing fingerprint.
isAdmin(room, fingerprint) ==
  IF room.adminFingerprint = fingerprint THEN "true"
  ELSE IF fingerprint = UndefFp THEN "throws"
  ELSE "false"

AddClient(room, c, fingerprint) ==
  [room EXCEPT !.clients[c] = [present |-> TRUE, fingerprint |-> fingerprint]]

RemoveClient(room, c) ==
  [room EXCEPT !.clients[c] = NoClient, !.clientBslStatus[c] = NoStatus]

\* socket.join(code) / socket.leave(code)
SocketJoin(groups, c, code) ==
  IF code \in RoomCodes THEN [groups EXCEPT ![code] = @ \cup {c}] ELSE groups
SocketLeave(groups, cs, code) ==
  IF code \in RoomCodes THEN [groups EXCEPT ![code] = @ \ cs] ELSE groups

FreeCodes == {code \in RoomCodes : ~rooms[code].exists}

CreateRoomEff(c, data, code) ==
  IF ~data.isObject THEN [Eff0 EXCEPT !.crash = TRUE]
  ELSE [Eff0 EXCEPT
          !.rooms[code] =
             [AddClient(NewRoom(StrictEq(data.isPrivate, Bool(TRUE)),
                                data.fingerprint, now), c, data.fingerprint)
                EXCEPT !.adminSocketId = c],
          !.ioRooms = SocketJoin(@, c, code),
          !.socketRoomMap[c] = code,
          !.emits = <<Emit(connected, PlainMsg("rooms-updated"))>>,
          !.logged = TRUE]

CreateRoom(c, data) ==
  /\ Live(c)
  /\ \E code \in FreeCodes :
       Apply([Event("create-room", c) EXCEPT
                !.s = code, !.fp = data.fingerprint,
                !.wellFormed = data.isObject /\ data.fingerprint # UndefFp],
             CreateRoomEff(c, data, code))

\* socket.on('get-rooms', (callback) => ...): the list handed to the
\* acknowledgement callback, when the sender gave one.
GetRoomsEff(c, hasCallback) ==
  IF hasCallback
  THEN [Eff0 EXCEPT
          !.emits = <<Emit({c}, [PlainMsg("get-rooms") EXCEPT
                                   !.reply = TRUE,
                                   !.publicRooms = getPublicRooms(rooms)])>>]
  ELSE Eff0

GetRooms(c, hasCallback) ==
  /\ Live(c)
  /\ config.SERVER_MODE
  /\ Apply(Event("get-rooms", c), GetRoomsEff(c, hasCallback))

JoinRoomEff(c, data) ==
  LET key == getRoom(data.roomCode) IN
  IF ~data.isObject THEN [Eff0 EXCEPT !.crash = TRUE]
  ELSE IF key = NoRoomCode THEN Eff0
  ELSE IF isAdmin(rooms[key], data.fingerprint) = "throws"
  THEN [Eff0 EXCEPT !.crash = TRUE]
  ELSE [Eff0 EXCEPT
          !.rooms[key] =
             [AddClient(@, c, data.fingerprint) EXCEPT
                !.adminSocketId =
                   IF isAdmin(rooms[key], data.fingerprint) = "true"
                   THEN c ELSE @],
          !.ioRooms = SocketJoin(@, c, key),
          !.socketRoomMap[c] = key,
          !.emits = <<Emit({c}, PlainMsg("config")),
                      Emit({c}, PlainMsg("playlist-update")),
                      Emit({c}, SyncMsg(rooms[key].videoState)),
                      Emit(Group(key) \cup {c}, PlainMsg("viewer-count")),
                      Emit(connected, PlainMsg("rooms-updated"))>>,
          !.logged = TRUE]

JoinRoom(c, data) ==
  /\ Live(c)
  /\ Apply([Event("join-room", c) EXCEPT
              !.s = data.roomCode, !.fp = data.fingerprint,
              !.wellFormed = data.isObject /\ data.fingerprint # UndefFp],
           JoinRoomEff(c, data))

LeaveRoomEff(c) ==
  LET roomCode == socketRoomMap[c]
      key == getRoom(roomCode)
  IN IF roomCode = NoRoomCode THEN Eff0
     ELSE IF key = NoRoomCode
     THEN [Eff0 EXCEPT !.socketRoomMap[c] = NoRoomCode, !.logged = TRUE]
     ELSE [Eff0 EXCEPT
             !.rooms[key] = RemoveClient(@, c),
             !.ioRooms = SocketLeave(@, {c}, roomCode),
             !.socketRoomMap[c] = NoRoomCode,
             !.emits = <<Emit(Group(roomCode) \ {c}, PlainMsg("viewer-count")),
                         Emit(connected, PlainMsg("rooms-updated"))>>,
             !.logged = TRUE]

LeaveRoom(c) ==
  /\ Live(c)
  /\ Apply(Event("leave-room", c), LeaveRoomEff(c))

\* The Room object leaves the registry: what pending continuations of
\* set-playlist captured stays alive with them.
Orphaned(eff, key) ==
  LET cut == ReplaceObject(eff, key, eff.rooms[key].videoState)
  IN [cut EXCEPT !.closures =
        [i \in 1..Len(@) |->
           IF @[i].key = key /\ ~@[i].orphan /\ i \in Captured(eff.closures, key)
           THEN [@[i] EXCEPT !.orphan = TRUE] ELSE @[i]]]

\* deleteRoom(code): rooms.get(code) with the code as given.
deleteRoom(eff, code) ==
  IF code \in RoomCodes /\ eff.rooms[code].exists
  THEN [Orphaned(eff, code) EXCEPT !.rooms[code] = NoRoom]
  ELSE eff

Members(room) == {c \in Conns : room.clients[c].present}

DeleteRoomEff(c, data) ==
  LET key == getRoom(data.roomCode) IN
  IF AdminBlocked(c, "delete-room") THEN AdminErrorEff(c)
  ELSE IF ~data.isObject THEN [Eff0 EXCEPT !.crash = TRUE]
  ELSE IF key = NoRoomCode THEN Eff0
  ELSE IF isAdmin(rooms[key], data.fingerprint) = "throws"
  THEN [Eff0 EXCEPT !.crash = TRUE]
  ELSE IF isAdmin(rooms[key], data.fingerprint) = "false" THEN Eff0
  ELSE deleteRoom(
         [Eff0 EXCEPT
            !.ioRooms = SocketLeave(@, Members(rooms[key]), data.roomCode),
            !.socketRoomMap = [x \in Conns |->
                                 IF x \in Members(rooms[key])
                                 THEN NoRoomCode ELSE @[x]],
            !.emits = <<Emit(Group(data.roomCode), PlainMsg("room-deleted")),
                        Emit(connected, PlainMsg("rooms-updated"))>>,
            !.logged = TRUE],
         data.roomCode)

DeleteRoom(c, data) ==
  /\ Live(c)
  /\ Apply([Event("delete-room", c) EXCEPT
              !.s = data.roomCode, !.fp = data.fingerprint,
              !.wellFormed = data.isObject /\ data.fingerprint # UndefFp,
              !.blocked = AdminBlocked(c, "delete-room")],
           DeleteRoomEff(c, data))

\* The transport closed: both 'disconnect' handlers, and socket.io takes
\* the socket out of every group.
\* BSL-S2 counts as active for a video when any viewer has a match,
\* whatever the mode.
videoBslStatusAny(room) ==
  [i \in 1..Len(room.playlist.videos) |->
     \E c \in Conns :
        /\ room.clientBslStatus[c].folderSelected
        /\ i - 1 \in MatchKeys
        /\ room.clientBslStatus[c].matchedVideos[i - 1] # NoName]

\* videoBslStatus[index].bslActive of sendBslStatusToAdmin; the entries of
\* clientBslStatus are the viewers whose folderSelected is set.
videoBslStatus(room) ==
  [i \in 1..Len(room.playlist.videos) |->
     LET total == {c \in Conns : room.clientBslStatus[c].folderSelected}
         clientsWithMatch ==
           {c \in total :
              /\ i - 1 \in MatchKeys
              /\ room.clientBslStatus[c].matchedVideos[i - 1] # NoName}
     IN IF config.BSL_S2_MODE = "all"
        THEN total # {} /\ clientsWithMatch = total
        ELSE clientsWithMatch # {}]

\* sendBslStatusToAdmin(roomCode)
StatusEmits(room) ==
  IF room.adminSocketId = NoConn THEN <<>>
  ELSE <<Emit({room.adminSocketId} \cap connected,
              [PlainMsg("bsl-status-update") EXCEPT
                 !.status = videoBslStatus(room)])>>

\* socket.on('bsl-get-status')
BslGetStatusEff(c) ==
  LET key == getRoom(socketRoomMap[c]) IN
  IF config.SERVER_MODE
  THEN IF socketRoomMap[c] = NoRoomCode \/ key = NoRoomCode THEN Eff0
       ELSE [Eff0 EXCEPT !.emits = StatusEmits(rooms[key])]
  ELSE [Eff0 EXCEPT !.emits = StatusEmits(rooms[LEGACY])]

BslGetStatus(c) ==
  /\ Live(c)
  /\ Apply([Event("bsl-get-status", c) EXCEPT
              !.s = IF config.SERVER_MODE THEN getRoom(socketRoomMap[c])
                    ELSE LEGACY],
           BslGetStatusEff(c))

DisconnectEff(c) ==
  LET roomCode == socketRoomMap[c]
      key == getRoom(roomCode)
      gone == [Eff0 EXCEPT
                 !.logged = TRUE,
                 !.connected = @ \ {c},
                 !.ioRooms = [code \in RoomCodes |-> @[code] \ {c}]]
  IN IF config.SERVER_MODE
     THEN IF roomCode = NoRoomCode THEN gone
          ELSE IF key = NoRoomCode
          THEN [gone EXCEPT !.socketRoomMap[c] = NoRoomCode]
          ELSE [gone EXCEPT
                  !.rooms[key] = RemoveClient(@, c),
                  !.socketRoomMap[c] = NoRoomCode,
                  !.emits = <<Emit(Group(roomCode) \ {c}, PlainMsg("viewer-count")),
                              Emit(connected \ {c}, PlainMsg("rooms-updated"))>>]
     ELSE LET left == [RemoveClient(rooms[LEGACY], c) EXCEPT
                         !.adminSocketId = IF @ = c THEN NoConn ELSE @]
          IN [gone EXCEPT
                !.verified = @ \ {c},
                !.rooms[LEGACY] = left,
                !.emits = StatusEmits(left)
                          \o <<Emit(connected \ {c}, PlainMsg("client-count"))>>]

Disconnect(c) ==
  /\ Live(c)
  /\ Apply(Event("disconnect", c), DisconnectEff(c))

\* ------------------------------------------------------------------------
\* Admin registration and client names
\* ------------------------------------------------------------------------
\* let registeredAdminFingerprint (null is ""), kept with the legacy globals
RegisteredFp == rooms[LEGACY].adminFingerprint

\* The payload of bsl-admin-register.
NoRegisterData == NoRoomData

\* The registration without the comparison against the persisted
\* fingerprint.
BslAdminRegisterUnchecked(c, data) ==
  IF ~data.isObject THEN [Eff0 EXCEPT !.crash = TRUE]
  ELSE [Eff0 EXCEPT !.logged = TRUE, !.verified = @ \cup {c},
                    !.rooms[LEGACY].adminSocketId = c,
                    !.emits = <<Emit({c}, AuthResult(TRUE))>>]

BslAdminRegisterEff(c, data) ==
  LET locked == config.ADMIN_FINGERPRINT_LOCK
      first == IF locked /\ RegisteredFp = ""
               THEN [Eff0 EXCEPT
                       !.rooms[LEGACY] =
                          setAdminFingerprint(
                             [@ EXCEPT !.adminFingerprint = data.fingerprint],
                             data.fingerprint)]
               ELSE Eff0
      admitted == [first EXCEPT !.logged = TRUE, !.verified = @ \cup {c},
                                !.rooms[LEGACY].adminSocketId = c]
      mapped == IF data.roomCode = NoRoomCode THEN admitted
                ELSE [admitted EXCEPT
                        !.socketRoomMap[c] = data.roomCode,
                        !.rooms = IF data.roomCode \in RoomCodes
                                     /\ rooms[data.roomCode].exists
                                  THEN [@ EXCEPT ![data.roomCode].adminSocketId = c]
                                  ELSE @]
  IN IF locked /\ data.fingerprint = UndefFp
     THEN [Eff0 EXCEPT !.emits = <<Emit({c}, AuthResult(FALSE))>>]
     ELSE IF locked /\ RegisteredFp # "" /\ RegisteredFp # data.fingerprint
     THEN [Eff0 EXCEPT
             !.emits = <<Emit({c}, AuthResult(FALSE))>>,
             !.closures = Append(@, Closure("kick", c, NoRoomCode, NoRoomCode,
                                            NoPayload, KickDelay))]
     ELSE IF ~data.isObject THEN [Eff0 EXCEPT !.crash = TRUE]
     ELSE [mapped EXCEPT
             !.emits = <<Emit({c}, AuthResult(TRUE))>>]

BslAdminRegister(c, data) ==
  /\ Live(c)
  /\ Apply([Event("bsl-admin-register", c) EXCEPT
              !.s = data.roomCode, !.fp = data.fingerprint,
              !.wellFormed = data.isObject],
           BslAdminRegisterEff(c, data))

\* The timer fires and leaves the socket connected.
KickIdle(i) ==
  /\ ~crashed
  /\ i \in 1..Len(closures)
  /\ closures[i].kind = "kick"
  /\ closures[i].left = 0
  /\ Apply(Event("bsl-admin-register:timer", closures[i].c),
           [Eff0 EXCEPT !.closures = Without(@, i)])

\* The callback of exec in detectEncoders: on success the document read at
\* boot goes back to memory.json with the encoders added; on an error of
\* exec nothing is written.
EncodersDetected ==
  /\ ~crashed
  /\ rooms[LEGACY].detecting.pending
  /\ \E error \in BOOLEAN :
       Apply(Event("detectEncoders:exec", NoConn),
             [Eff0 EXCEPT
                !.rooms[LEGACY].detecting = NotDetecting,
                !.rooms[LEGACY].memoryFile =
                   IF error THEN @
                   ELSE [encrypted |-> rooms[LEGACY].detecting.encrypted,
                         encoders |-> TRUE]])

\* setTimeout(() => socket.disconnect(true), 1000)
Kick(i) ==
  /\ ~crashed
  /\ i \in 1..Len(closures)
  /\ closures[i].kind = "kick"
  /\ closures[i].left = 0
  /\ Apply(Event("bsl-admin-register:timer", closures[i].c),
           IF closures[i].c \in connected
           THEN [DisconnectEff(closures[i].c) EXCEPT
                   !.closures = Without(@, i), !.logged = FALSE]
           ELSE [Eff0 EXCEPT !.closures = Without(@, i)])

\* The payload of set-client-name and set-client-display-name; "" is a
\* missing field.
NameData(fingerprint, displayName) ==
  [isObject |-> TRUE, fingerprint |-> fingerprint, displayName |-> displayName]
NoNameData == [NameData("", "") EXCEPT !.isObject = FALSE]

\* setClientName(id, name); clientDisplayNames = getClientNames()
setClientName(eff, fingerprint, displayName) ==
  IF fingerprint \in Fingerprints
  THEN [eff EXCEPT !.names[fingerprint] = displayName, !.logged = TRUE,
                   !.rooms[LEGACY] = saveMemory(@)]
  ELSE eff

SetClientDisplayNameEff(c, data) ==
  IF AdminBlocked(c, "set-client-display-name") THEN AdminErrorEff(c)
  ELSE IF ~data.isObject THEN [Eff0 EXCEPT !.crash = TRUE]
  ELSE IF data.fingerprint # ""
  THEN setClientName(Eff0, data.fingerprint, data.displayName)
  ELSE Eff0

SetClientDisplayName(c, data) ==
  /\ Live(c)
  /\ Apply([Event("set-client-display-name", c) EXCEPT
              !.s = data.displayName, !.fp = data.fingerprint,
              !.wellFormed = data.isObject,
              !.blocked = AdminBlocked(c, "set-client-display-name")],
           SetClientDisplayNameEff(c, data))

SetClientNameEff(c, data) ==
  IF AdminBlocked(c, "set-client-name") THEN AdminErrorEff(c)
  ELSE IF AdminTarget(c) = NoRoomCode THEN Eff0
  ELSE IF ~data.isObject THEN [Eff0 EXCEPT !.crash = TRUE]
  ELSE IF data.fingerprint # "" /\ data.displayName # ""
  THEN [setClientName(Eff0, data.fingerprint, data.displayName) EXCEPT
          !.emits = StatusEmits(rooms[AdminTarget(c)])]
  ELSE Eff0

SetClientName(c, data) ==
  /\ Live(c)
  /\ Apply([Event("set-client-name", c) EXCEPT
              !.s = data.displayName, !.fp = data.fingerprint,
              !.wellFormed = data.isObject,
              !.blocked = AdminBlocked(c, "set-client-name")],
           SetClientNameEff(c, data))

GetClientListEff(c) ==
  IF AdminBlocked(c, "get-client-list") THEN AdminErrorEff(c)
  ELSE IF TargetOf(c) = NoRoomCode THEN Eff0
  ELSE [Eff0 EXCEPT !.emits = <<Emit({c}, PlainMsg("client-list"))>>]

GetClientList(c) ==
  /\ Live(c)
  /\ Apply([Event("get-client-list", c) EXCEPT
              !.blocked = AdminBlocked(c, "get-client-list")],
           GetClientListEff(c))

\* ------------------------------------------------------------------------
\* HTTP: the CSRF tokens and the FFmpeg tools API
\* ------------------------------------------------------------------------
Sessions == {"S1", "S2"}
Tokens == {"T1", "T2"}
NoToken == [token |-> "", expires |-> 0]

\* A request: the sync_session cookie, the X-CSRF-Token header and the body
\* fields password ("", "good", "bad"), filename and jobId; "" and 0 stand for
\* a missing field.
Request(route, cookie, token, password, hasFilename, jobId) ==
  [route |-> route, cookie |-> cookie, token |-> token, password |-> password,
   hasFilename |-> hasFilename, jobId |-> jobId]
NoRequest == Request("", "", "", "", FALSE, 0)

\* const csrfTokens, const ffmpegJobs, let ffmpegJobCounter; status is the
\* status code of the last response.
HttpIdle(hasPassword) ==
  [hasPassword |-> hasPassword,
   csrfTokens |-> [sid \in Sessions |-> NoToken],
   ffmpegJobs |-> <<>>, ffmpegJobCounter |-> 0,
   req |-> NoRequest, status |-> 0, body |-> {}]

validateCsrfToken(sessionId, token) ==
  /\ sessionId \in Sessions
  /\ http.csrfTokens[sessionId].token # ""
  /\ ~(http.csrfTokens[sessionId].expires < now)
  /\ http.csrfTokens[sessionId].token = token

\* csrfProtection(req, res, next): 403, or 0 for next()
csrfProtection(req) ==
  IF req.cookie = "" \/ req.token = "" \/ ~validateCsrfToken(req.cookie, req.token)
  THEN 403 ELSE 0

\* verifyFfmpegAuth(req, res, next): 403, 401, or 0 for next()
verifyFfmpegAuth(req) ==
  IF ~http.hasPassword THEN 403
  ELSE IF req.password = "" THEN 401
  ELSE IF req.password # "good" THEN 401
  ELSE 0

Respond(req, status, h) ==
  /\ ~crashed
  /\ http' = [h EXCEPT !.req = req, !.status = status]
  /\ lastEvent' = Event(req.route, NoConn)
  /\ UNCHANGED <<config, now, tickIn, backs, crashed, connected, rooms,
                 socketRoomMap, ioRooms, verifiedAdminSockets,
                 clientDisplayNames, detached, closures, inbox, player, log>>

\* app.get('/api/rooms'): 404 outside server mode, else the public rooms.
GetApiRooms ==
  IF ~config.SERVER_MODE
  THEN Respond(Request("GET /api/rooms", "", "", "", FALSE, 0), 404,
               [http EXCEPT !.body = {}])
  ELSE Respond(Request("GET /api/rooms", "", "", "", FALSE, 0), 200,
               [http EXCEPT !.body = getPublicRooms(rooms)])

\* GET /api/csrf-token: getOrCreateCsrfToken for the session of the cookie,
\* or for a new session.
GetCsrfToken(cookie) ==
  \E sid \in Sessions : \E token \in Tokens :
     /\ IF cookie = "" THEN http.csrfTokens[sid].token = "" ELSE sid = cookie
     /\ \A other \in Sessions : http.csrfTokens[other].token # token
     /\ Respond(Request("GET /api/csrf-token", cookie, "", "", FALSE, 0), 200,
                IF http.csrfTokens[sid].token # ""
                   /\ http.csrfTokens[sid].expires > now
                THEN http
                ELSE [http EXCEPT !.csrfTokens[sid] =
                        [token |-> token, expires |-> now + CSRF_TOKEN_EXPIRY]])

\* app.post('/api/ffmpeg/run-preset', express.json(), verifyFfmpegAuth, ...)
\* with the synchronous start of runFfmpegJob.
RunPreset(req) ==
  /\ req.route = "POST /api/ffmpeg/run-preset"
  /\ Len(http.ffmpegJobs) < MaxJobs
  /\ IF verifyFfmpegAuth(req) # 0 THEN Respond(req, verifyFfmpegAuth(req), http)
     ELSE IF ~req.hasFilename THEN Respond(req, 400, http)
     ELSE Respond(req, 200,
            [http EXCEPT
               !.ffmpegJobCounter = @ + 1,
               !.ffmpegJobs = Append(@, [id |-> http.ffmpegJobCounter + 1,
                                         status |-> "running", ended |-> FALSE])])

\* app.post('/api/ffmpeg/cancel', express.json(), verifyFfmpegAuth, ...)
CancelJob(req) ==
  /\ req.route = "POST /api/ffmpeg/cancel"
  /\ IF verifyFfmpegAuth(req) # 0 THEN Respond(req, verifyFfmpegAuth(req), http)
     ELSE IF \E i \in 1..Len(http.ffmpegJobs) :
                /\ http.ffmpegJobs[i].id = req.jobId
                /\ http.ffmpegJobs[i].status = "running"
     THEN Respond(req, 200,
            [http EXCEPT !.ffmpegJobs =
               [i \in 1..Len(@) |->
                  IF @[i].id = req.jobId THEN [@[i] EXCEPT !.status = "cancelled"]
                  ELSE @[i]]])
     ELSE Respond(req, 404, http)

\* runFfmpegJob settles: job.status = 'completed' or 'failed'.
JobEnds(i) ==
  /\ i \in 1..Len(http.ffmpegJobs)
  /\ ~http.ffmpegJobs[i].ended
  /\ \E status \in {"completed", "failed"} :
       Respond(NoRequest, 0,
               [http EXCEPT !.ffmpegJobs[i] = [@ EXCEPT !.status = status,
                                                        !.ended = TRUE]])

\* ------------------------------------------------------------------------
\* BSL-S2: bsl-folder-selected, bsl-manual-match, bsl-set-drift
\* ------------------------------------------------------------------------
\* 1.5 MB, sizes being counted in half megabytes
SIZE_TOLERANCE == 3
\* isInRange(drift, -60, 60), Math.max(-60, Math.min(60, ...))
DRIFT_LIMIT == 60

\* item.filename of the playlist items
FilenameOf(item) == IF item.id = 1 THEN "a.mp4" ELSE "b.mkv"

\* name.substring(name.lastIndexOf('.')).toLowerCase()
ExtOf(name) == IF ToLowerCase(name) = "b.mkv" THEN ".mkv" ELSE ".mp4"

\* mimeMap[serverExt] || ''
ExpectedMime(ext) == IF ext = ".mp4" THEN "video/mp4" ELSE "video/x-matroska"

\* type.startsWith(expectedMime.split('/')[0]): the part before the slash
MajorOf(type) ==
  CASE type = "" -> ""
    [] type = "audio/mpeg" -> "audio"
    [] OTHER -> "video"

\* fs.statSync(media/filename).size, -1 when the file is not on disk
StatSize(filename) == IF filename = "a.mp4" THEN 20 ELSE -1

\* An element of data.files
File(name, size, type) == [name |-> name, size |-> size, type |-> type]

Abs(n) == IF n < 0 THEN 0 - n ELSE n

\* The four criteria of the advanced matching
matchScore(clientFile, filename) ==
  (IF ToLowerCase(clientFile.name) = ToLowerCase(filename) THEN 1 ELSE 0)
  + (IF ExtOf(clientFile.name) = ExtOf(filename) THEN 1 ELSE 0)
  + (IF /\ clientFile.size # Undefined
        /\ StatSize(filename) >= 0
        /\ Abs(clientFile.size.v - StatSize(filename)) <= SIZE_TOLERANCE
     THEN 1 ELSE 0)
  + (IF /\ clientFile.type # ""
        /\ \/ clientFile.type = ExpectedMime(ExtOf(filename))
           \/ MajorOf(clientFile.type) = MajorOf(ExpectedMime(ExtOf(filename)))
     THEN 1 ELSE 0)

\* The body of the two nested forEach for one file and one playlist video
FileMatches(clientMatches, clientFile, video) ==
  \/ clientMatches[ToLowerCase(clientFile.name)] = ToLowerCase(FilenameOf(video))
  \/ IF config.BSL_ADVANCED_MATCH
     THEN matchScore(clientFile, FilenameOf(video))
             >= config.BSL_ADVANCED_MATCH_THRESHOLD
     ELSE ToLowerCase(clientFile.name) = ToLowerCase(FilenameOf(video))

Last(set) == CHOOSE i \in set : \A j \in set : j <= i

\* matchedVideos after the loops: the last matching file of each index
AutoMatch(clientMatches, files, videos) ==
  [k \in MatchKeys |->
     IF k < Len(videos)
     THEN LET hits == {i \in 1..Len(files) :
                         FileMatches(clientMatches, files[i], videos[k + 1])}
          IN IF hits = {} THEN NoName ELSE files[Last(hits)].name
     ELSE NoName]

FolderData(clientId, files) ==
  [isObject |-> TRUE, hasFiles |-> TRUE, clientId |-> clientId, files |-> files]
NoFolderData == [FolderData("", <<>>) EXCEPT !.isObject = FALSE, !.hasFiles = FALSE]

BslFolderSelectedEff(c, data) ==
  LET key == TargetOf(c) IN
  IF key = NoRoomCode THEN Eff0
  ELSE IF ~data.isObject \/ ~data.hasFiles THEN [Eff0 EXCEPT !.crash = TRUE]
  ELSE LET clientId == IF data.clientId = "" THEN c ELSE data.clientId
           videos == rooms[key].playlist.videos
           clientMatches == rooms[LEGACY].bslMatches[clientId]
       IN IF /\ Len(videos) > 0 /\ Len(data.files) > 0
             /\ \E i \in 1..Len(videos) : ~videos[i].hasFilename
          THEN [Eff0 EXCEPT !.crash = TRUE]
          ELSE [Eff0 EXCEPT
                  !.rooms[key].clientBslStatus[c] =
                     [folderSelected |-> TRUE, clientId |-> clientId,
                      files |-> data.files,
                      matchedVideos |->
                         AutoMatch(clientMatches, data.files, videos)],
                  !.emits = StatusEmits(
                     [rooms[key] EXCEPT
                        !.clientBslStatus[c] =
                           [folderSelected |-> TRUE, clientId |-> clientId,
                            files |-> data.files,
                            matchedVideos |->
                               AutoMatch(clientMatches, data.files, videos)]])
                            \o <<Emit({c}, PlainMsg("bsl-match-result"))>>,
                  !.logged = TRUE]

BslFolderSelected(c, data) ==
  /\ Live(c)
  /\ Apply([Event("bsl-folder-selected", c) EXCEPT
              !.s = TargetOf(c), !.fp = data.clientId,
              !.wellFormed = data.isObject /\ data.hasFiles],
           BslFolderSelectedEff(c, data))

ManualData(clientSocketId, clientFileName, playlistIndex) ==
  [isObject |-> TRUE, clientSocketId |-> clientSocketId,
   clientFileName |-> clientFileName, playlistIndex |-> playlistIndex]
NoManualData == [ManualData(NoConn, NoName, Undefined) EXCEPT !.isObject = FALSE]

BslManualMatchEff(c, data) ==
  LET key == AdminTarget(c) IN
  IF AdminBlocked(c, "bsl-manual-match") THEN AdminErrorEff(c)
  ELSE IF key = NoRoomCode THEN Eff0
  ELSE IF ~data.isObject THEN [Eff0 EXCEPT !.crash = TRUE]
  ELSE IF data.clientSocketId \notin Conns THEN Eff0
  ELSE LET clientStatus == rooms[key].clientBslStatus[data.clientSocketId]
           index == ArrayIndex(data.playlistIndex)
           videos == rooms[key].playlist.videos
           found == index >= 0 /\ index < Len(videos)
           matched == [Eff0 EXCEPT
                         !.rooms[key].clientBslStatus[data.clientSocketId]
                            .matchedVideos[index] = data.clientFileName]
           saved == IF found /\ clientStatus.clientId # ""
                    THEN [matched EXCEPT
                            !.rooms[LEGACY] =
                               saveMemory(
                                 [@ EXCEPT
                                    !.bslMatches[clientStatus.clientId]
                                       [ToLowerCase(data.clientFileName)] =
                                       ToLowerCase(FilenameOf(videos[index + 1]))])]
                    ELSE matched
       IN IF ~clientStatus.folderSelected THEN Eff0
          ELSE IF index \notin MatchKeys THEN [Eff0 EXCEPT !.fits = FALSE]
          ELSE IF /\ found /\ clientStatus.clientId # ""
                  /\ (data.clientFileName = NoName
                      \/ ~videos[index + 1].hasFilename)
          THEN [matched EXCEPT !.crash = TRUE]
          ELSE [saved EXCEPT
                  !.emits = <<Emit({data.clientSocketId} \cap connected,
                                   PlainMsg("bsl-match-result"))>>
                            \o StatusEmits(matched.rooms[key]),
                  !.logged = TRUE]

BslManualMatch(c, data) ==
  /\ Live(c)
  /\ Apply([Event("bsl-manual-match", c) EXCEPT
              !.s = TargetOf(c), !.b = data.playlistIndex,
              !.wellFormed = data.isObject,
              !.blocked = AdminBlocked(c, "bsl-manual-match")],
           BslManualMatchEff(c, data))

\* isInRange(val, min, max)
isInRange(val, min, max) ==
  CASE val.t \in {"number", "string"} -> val.v >= min /\ val.v <= max
    [] val.t = "fraction" -> val.v >= min /\ val.v < max
    [] OTHER -> FALSE

validateDriftSeconds(drift) == isInRange(drift, 0 - DRIFT_LIMIT, DRIFT_LIMIT)

\* parseInt(x) || 0
ParseIntOr0(x) ==
  CASE x.t \in {"number", "string"} -> x.v
    [] x.t = "fraction" -> IF x.v >= 0 THEN x.v ELSE x.v + 1
    [] OTHER -> 0

\* Math.max(-60, Math.min(60, n))
Clamp(n) ==
  IF n > DRIFT_LIMIT THEN DRIFT_LIMIT
  ELSE IF n < 0 - DRIFT_LIMIT THEN 0 - DRIFT_LIMIT ELSE n

DriftData(clientFingerprint, playlistIndex, driftSeconds) ==
  [isObject |-> TRUE, clientFingerprint |-> clientFingerprint,
   playlistIndex |-> playlistIndex, driftSeconds |-> driftSeconds]
NoDriftData == [DriftData("", Undefined, Undefined) EXCEPT !.isObject = FALSE]

ConnSeq == <<"s1", "s2", "s3">>

DriftUpdate(clampedDrift) ==
  Msg("bsl-drift-update", InitialVideoState(0), Num(clampedDrift))

\* room.clients.forEach / connectedClients.forEach: one emit per socket
\* registered with the fingerprint
DriftEmits(room, clientFingerprint, clampedDrift) ==
  LET hit == SelectSeq(ConnSeq, LAMBDA x :
                 room.clients[x].present
                 /\ room.clients[x].fingerprint = clientFingerprint)
  IN [i \in 1..Len(hit) |->
        Emit({hit[i]} \cap connected, DriftUpdate(clampedDrift))]

\* The notification goes to the whole room whatever the fingerprint.
BslSetDriftToAll(c, data) ==
  LET key == AdminTarget(c)
      clampedDrift == Clamp(ParseIntOr0(data.driftSeconds))
  IN
  IF AdminBlocked(c, "bsl-set-drift") THEN AdminErrorEff(c)
  ELSE IF ~data.isObject \/ key = NoRoomCode THEN Eff0
  ELSE IF data.clientFingerprint = "" THEN Eff0
  ELSE IF ~isValidInteger(data.playlistIndex) \/ JsLt(data.playlistIndex, 0)
  THEN Eff0
  ELSE IF ~validateDriftSeconds(data.driftSeconds) THEN Eff0
  ELSE [Eff0 EXCEPT
          !.rooms[key].clientDriftValues[data.clientFingerprint]
             [data.playlistIndex.v] = Num(clampedDrift),
          !.emits = <<Emit(AudienceOf(c), DriftUpdate(clampedDrift))>>
                    \o StatusEmits(rooms[key]),
          !.fits = data.playlistIndex.v \in MatchKeys,
          !.logged = TRUE]

BslSetDriftEff(c, data) ==
  LET key == AdminTarget(c)
      clampedDrift == Clamp(ParseIntOr0(data.driftSeconds))
  IN
  IF AdminBlocked(c, "bsl-set-drift") THEN AdminErrorEff(c)
  ELSE IF ~data.isObject \/ key = NoRoomCode THEN Eff0
  ELSE IF data.clientFingerprint = "" THEN Eff0
  ELSE IF ~isValidInteger(data.playlistIndex) \/ JsLt(data.playlistIndex, 0)
  THEN Eff0
  ELSE IF ~validateDriftSeconds(data.driftSeconds) THEN Eff0
  ELSE IF data.playlistIndex.v \notin MatchKeys THEN [Eff0 EXCEPT !.fits = FALSE]
  ELSE [Eff0 EXCEPT
          !.rooms[key].clientDriftValues[data.clientFingerprint]
             [data.playlistIndex.v] = Num(clampedDrift),
          !.emits = DriftEmits(rooms[key], data.clientFingerprint, clampedDrift)
                    \o StatusEmits(rooms[key]),
          !.logged = TRUE]

BslSetDrift(c, data) ==
  /\ Live(c)
  /\ Apply([Event("bsl-set-drift", c) EXCEPT
              !.s = TargetOf(c), !.fp = data.clientFingerprint,
              !.a = data.driftSeconds, !.b = data.playlistIndex,
              !.wellFormed = data.isObject,
              !.blocked = AdminBlocked(c, "bsl-set-drift")],
           BslSetDriftEff(c, data))

\* ------------------------------------------------------------------------
\* Time: the wall clock, the 5 s interval and the timers
\* ------------------------------------------------------------------------
TimersRunning ==
  \A i \in 1..Len(closures) :
     closures[i].kind \in {"repause", "kick"} => closures[i].left > 0

Advance ==
  /\ ~crashed
  /\ now < config.horizon
  /\ tickIn > 0
  /\ TimersRunning
  /\ now' = now + 1
  /\ tickIn' = tickIn - 1
  /\ closures' = [i \in 1..Len(closures) |->
                    IF closures[i].kind \in {"repause", "kick"}
                    THEN [closures[i] EXCEPT !.left = @ - 1] ELSE closures[i]]
  /\ lastEvent' = Event("advance", NoConn)
  /\ UNCHANGED <<config, backs, crashed, connected, rooms, socketRoomMap,
                 ioRooms, verifiedAdminSockets, clientDisplayNames, detached,
                 inbox, player, log, http>>

\* The wall clock is set back (NTP, manual change); timers are unaffected.
ClockBack ==
  /\ ~crashed
  /\ backs < MaxBack
  /\ now > 0
  /\ now' = now - 1
  /\ backs' = backs + 1
  /\ lastEvent' = Event("clock-back", NoConn)
  /\ UNCHANGED <<config, tickIn, crashed, connected, rooms, socketRoomMap,
                 ioRooms, verifiedAdminSockets, clientDisplayNames, detached,
                 closures, inbox, player, log, http>>

Ticked(key) ==
  IF config.SERVER_MODE THEN key \in RoomCodes /\ rooms[key].exists
  ELSE key = LEGACY

\* const syncInterval = setInterval(() => {...}, 5000)
syncInterval ==
  /\ ~crashed
  /\ tickIn = 0
  /\ tickIn' = TickPeriod
  /\ rooms' = [key \in AllCodes |->
                 IF Ticked(key)
                 THEN [rooms[key] EXCEPT
                         !.videoState = syncIntervalState(@, now)]
                 ELSE rooms[key]]
  /\ lastEvent' = Event("tick", NoConn)
  /\ UNCHANGED <<config, now, backs, crashed, connected, socketRoomMap,
                 ioRooms, verifiedAdminSockets, clientDisplayNames, detached,
                 closures, inbox, player, log, http>>

\* ------------------------------------------------------------------------
\* client.js: socket.on('sync') of a viewer's page (local media, no drift)
\* ------------------------------------------------------------------------
InitialPlayer ==
  [lastUpdate |-> 0, paused |-> TRUE, targetTime |-> Undefined,
   currentServerRate |-> Num(DefaultRate), synced |-> FALSE,
   at |-> 0, reply |-> FALSE, seen |-> <<>>]

\* if (now - lastUpdate < 100) return; with 500 ms steps two events of the
\* same step are less or more than 100 ms apart.
Debounced(c) ==
  IF now - player[c].lastUpdate < 0 THEN {TRUE}
  ELSE IF now - player[c].lastUpdate = 0 THEN {TRUE, FALSE}
  ELSE {FALSE}

OnSync(c, msg) ==
  [lastUpdate |-> now,
   paused |-> ~Truthy(msg.vs.isPlaying),
   targetTime |-> JsPlus(msg.vs.currentTime, 0),
   currentServerRate |-> RateOrDefault(msg.vs),
   synced |-> TRUE, at |-> msg.at, reply |-> msg.reply,
   seen |-> player[c].seen]

\* What the page has been handed so far (a history of at most config.seen
\* events).
Observed(p, msg) ==
  [p EXCEPT !.seen = IF Len(@) < config.seen THEN Append(@, msg) ELSE @]

\* The transport hands over the newest event first.
DeliverNewest(c) ==
  /\ c \in config.tracked
  /\ inbox[c] # <<>>
  /\ inbox' = [inbox EXCEPT ![c] = SubSeq(@, 1, Len(@) - 1)]
  /\ player' = [player EXCEPT ![c] = Observed(@, inbox[c][Len(inbox[c])])]
  /\ lastEvent' = Event("deliver", c)
  /\ UNCHANGED <<config, now, tickIn, backs, crashed, connected, rooms,
                 socketRoomMap, ioRooms, verifiedAdminSockets,
                 clientDisplayNames, detached, closures, log, http>>

Deliver(c) ==
  /\ c \in config.tracked
  /\ inbox[c] # <<>>
  /\ inbox' = [inbox EXCEPT ![c] = Tail(@)]
  /\ \E drop \in Debounced(c) :
       player' = [player EXCEPT ![c] =
                    Observed(IF Head(inbox[c]).ev = "sync" /\ ~drop
                             THEN OnSync(c, Head(inbox[c])) ELSE @,
                             Head(inbox[c]))]
  /\ lastEvent' = Event("deliver", c)
  /\ UNCHANGED <<config, now, tickIn, backs, crashed, connected, rooms,
                 socketRoomMap, ioRooms, verifiedAdminSockets,
                 clientDisplayNames, detached, closures, log, http>>

\* ------------------------------------------------------------------------
\* Starting states
\* ------------------------------------------------------------------------
Config(serverMode, autoplay, controlsDisabled, lock, tracked, trackEvents, horizon) ==
  [horizon |-> horizon, SERVER_MODE |-> serverMode, VIDEO_AUTOPLAY |-> autoplay,
   CLIENT_CONTROLS_DISABLED |-> controlsDisabled,
   CLIENT_SYNC_DISABLED |-> FALSE, ADMIN_FINGERPRINT_LOCK |-> lock,
   JOIN_MODE |-> "sync", tracked |-> tracked, trackEvents |-> trackEvents,
   inbox |-> MaxInbox, seen |-> 0,
   BSL_ADVANCED_MATCH |-> TRUE, BSL_ADVANCED_MATCH_THRESHOLD |-> 1,
   BSL_S2_MODE |-> "any", address |-> [c \in Conns |-> "127.0.0.1"]]

\* The process has started: everything but the registry of rooms.
BootHttp(cfg, phases, hasPassword) ==
  /\ http = HttpIdle(hasPassword)
  /\ config = cfg
  /\ now = 0
  /\ tickIn \in phases
  /\ backs = 0
  /\ crashed = FALSE
  /\ verifiedAdminSockets = {}
  /\ clientDisplayNames = [fp \in Fingerprints |-> ""]
  /\ detached = [k \in DetIds |-> NoDetached]
  /\ closures = <<>>
  /\ inbox = [c \in Conns |-> <<>>]
  /\ player = [c \in Conns |-> InitialPlayer]
  /\ lastEvent = Event("init", NoConn)
  /\ log = <<>>

\* ffmpeg_tools_password defaults to '': the FFmpeg tools are disabled.
Boot(cfg, phases) == BootHttp(cfg, phases, FALSE)

NoRooms == [key \in AllCodes |->
              IF key = LEGACY THEN NewRoom(FALSE, "", 0) ELSE NoRoom]

\* A room right after create-room by admin and join-room by viewer.
RoomOf(admin, adminFp, viewer, viewerFp) ==
  [NewRoom(FALSE, adminFp, 0) EXCEPT
     !.adminSocketId = admin,
     !.clients = [c \in Conns |->
                    IF c = admin THEN [present |-> TRUE, fingerprint |-> adminFp]
                    ELSE IF c = viewer
                    THEN [present |-> TRUE, fingerprint |-> viewerFp]
                    ELSE NoClient]]

\* ------------------------------------------------------------------------
\* The playback clock of one room: an admin, a viewer, the interval
\* ------------------------------------------------------------------------
Ctl(action) == [NoCtl EXCEPT !.action = action]

TimeControls ==
  {[Ctl("playpause") EXCEPT !.state = Bool(TRUE)],
   [Ctl("playpause") EXCEPT !.state = Bool(FALSE)],
   [Ctl("rate") EXCEPT !.rate = Num(200)],
   [Ctl("rate") EXCEPT !.rate = Num(50)],
   [Ctl("seek") EXCEPT !.time = Num(6000)],
   [Ctl("selectTrack") EXCEPT !.type = "audio", !.trackIndex = Num(1)],
   [NoCtl EXCEPT !.isPlaying = Bool(TRUE), !.currentTime = Num(1000)]}

Payload(items, mainVideoIndex, startTime) ==
  [isObject |-> TRUE, hasPlaylist |-> TRUE, playlist |-> items,
   mainVideoIndex |-> mainVideoIndex, startTime |-> startTime]

TimePlaylists ==
  {Payload(<<Item(1, TRUE, TRUE)>>, Num(0), Num(2000)),
   Payload(<<Item(1, TRUE, FALSE)>>, Num(0), Num(2000))}

OneRoom ==
  /\ connected = {"s1", "s2"}
  /\ rooms = [NoRooms EXCEPT !["AAAAAA"] = RoomOf("s1", "F1", "s2", "F2")]
  /\ socketRoomMap = [c \in Conns |->
                        IF c \in {"s1", "s2"} THEN "AAAAAA" ELSE NoRoomCode]
  /\ ioRooms = [key \in RoomCodes |->
                  IF key = "AAAAAA" THEN {"s1", "s2"} ELSE {}]

InitClock ==
  /\ \E autoplay \in BOOLEAN :
        Boot(Config(TRUE, autoplay, TRUE, FALSE, {}, {}, ClockHorizon), {2, 3})
  /\ OneRoom

NextClock ==
  \/ Advance
  \/ ClockBack
  \/ syncInterval
  \/ \E data \in TimeControls : Control("s1", data)
  \/ \E data \in TimePlaylists : SetPlaylist("s1", data)
  \/ \E i \in 1..MaxClosures : SetPlaylistResume(i)
  \/ \E i \in 1..MaxClosures : RePause(i)

SpecClock == InitClock /\ [][NextClock]_vars

\* ------------------------------------------------------------------------
\* The playback clock: properties
\* ------------------------------------------------------------------------
\* The logical position of a videoState at wall time t: what consolidation
\* at t makes of currentTime.
Position(vs, t) == consolidateTime(vs, t).currentTime.v

Playing(key) == rooms[key].exists /\ Truthy(rooms[key].videoState.isPlaying)

\* Steps that are not a seek, a skip or a change of item.
KeepsPosition(e) ==
  \/ e.ev \in {"tick", "advance"}
  \/ e.ev = "control" /\ e.ctl.action \in {"playpause", "rate", "selectTrack"}

\* C2: for a room that is playing, the logical position at a wall time is
\* never below the logical position at an earlier wall time, whatever
\* ticks, controls other than seek/skip and backward clock steps occur.
C2_TimeMonotonic ==
  [][\A key \in RoomCodes :
       (/\ Playing(key)
        /\ Playing(key)'
        /\ KeepsPosition(lastEvent')
        /\ now' >= now)
       => Position(rooms'[key].videoState, now')
            >= Position(rooms[key].videoState, now)]_vars

\* C3: the background tick consolidates every playing room: position grows
\* by rate x elapsed and the anchor becomes now, so the logical position
\* right after the tick equals the one right before it.
C3_TickConsolidates ==
  [][lastEvent'.ev = "tick" =>
       \A key \in RoomCodes :
          Playing(key) =>
            rooms'[key].videoState = consolidateTime(rooms[key].videoState, now)]_vars

\* The room whose isPlaying or playbackRate the step wrote, or NoRoomCode.
WroteRate(e) ==
  CASE e.ev = "control" /\ e.accepted
         /\ e.ctl.action \in {"playpause", "rate", ""} -> TargetOf(e.c)
    [] e.ev \in {"set-playlist", "set-playlist:resume"} /\ e.accepted
         /\ e.ref = 0 -> IF e.ev = "set-playlist" THEN TargetOf(e.c) ELSE e.s
    [] e.ev = "set-playlist:timer" /\ e.ref = 0 -> e.s
    [] OTHER -> NoRoomCode

\* Writes that keep the position (the others replace it by a payload field).
Folds(e) ==
  \/ e.ev = "set-playlist:timer"
  \/ e.ev = "control" /\ e.ctl.action \in {"playpause", "rate"}

\* C5: every write that changes isPlaying or the rate happens on a
\* consolidated state: the elapsed time is folded into the position and
\* the anchor is now.
C5_ConsolidateFirst ==
  [][LET key == WroteRate(lastEvent')
         before == rooms[key].videoState
         after == rooms'[key].videoState
     IN (/\ key # NoRoomCode
         /\ \/ Truthy(after.isPlaying) # Truthy(before.isPlaying)
            \/ after.playbackRate # before.playbackRate)
        => /\ after.lastUpdate = now'
           /\ Folds(lastEvent') =>
                after.currentTime = consolidateTime(before, now).currentTime]_vars

\* ------------------------------------------------------------------------
\* Scenario S2: a rate change while playing
\* ------------------------------------------------------------------------
S2Controls ==
  {[Ctl("seek") EXCEPT !.time = Num(6000)],
   [Ctl("rate") EXCEPT !.rate = Num(200)]}

InitS2 ==
  /\ Boot(Config(TRUE, TRUE, TRUE, FALSE, {}, {}, S2Horizon), {4, 9})
  /\ OneRoom

NextS2 ==
  \/ Advance
  \/ syncInterval
  \/ \E data \in S2Controls : Control("s1", data)

SpecS2 == InitS2 /\ [][NextS2]_vars

\* position = 30 and anchor = t0 while playing at rate 1, rate 2.0 issued
\* at t0 + 4 s, and the clock now reads t0 + 6 s.
S2Reached ==
  /\ Len(log) = 2
  /\ log[1].action = "seek" /\ log[1].arg = Num(6000)
  /\ log[2].action = "rate" /\ log[2].arg = Num(200)
  /\ log[2].at = log[1].at + 8
  /\ now = log[1].at + 12

\* C4: in scenario S2 the logical position at t0 + 6 s is
\* 30 + 1 x 4 + 2 x 2 = 38, with or without a tick in between.
C4_ScenarioS2 ==
  S2Reached => Position(rooms["AAAAAA"].videoState, now) = 7600

\* ------------------------------------------------------------------------
\* Scenario S1: a viewer asks for the position
\* ------------------------------------------------------------------------
S1Controls == {[Ctl("playpause") EXCEPT !.state = Bool(TRUE)]}

InitS1 ==
  /\ \E autoplay \in BOOLEAN :
        Boot(Config(TRUE, autoplay, TRUE, FALSE, {"s2"}, {"sync"}, S1Horizon),
             {2, 9})
  /\ OneRoom

NextS1 ==
  \/ Advance
  \/ syncInterval
  \/ \E data \in S1Controls : Control("s1", data)
  \/ \E data \in TimePlaylists : SetPlaylist("s1", data)
  \/ \E i \in 1..MaxClosures : SetPlaylistResume(i)
  \/ \E i \in 1..MaxClosures : RePause(i)
  \/ RequestSync("s2")
  \/ Deliver("s2")

SpecS1 == InitS1 /\ [][NextS1]_vars

\* The viewer c has handled the reply to a request-sync it issued 2 s after
\* the playpause that followed a set-playlist with start time 10.
S1Replied(c) ==
  /\ Len(log) = 2
  /\ log[1].ev \in {"set-playlist", "set-playlist:resume"}
  /\ log[1].arg = Num(2000)
  /\ log[2].action = "playpause" /\ log[2].arg = Bool(TRUE)
  /\ player[c].synced /\ player[c].reply
  /\ player[c].at = log[2].at + 4

\* C1: in scenario S1 the position a viewer obtains from the reply to its
\* request-sync at t0 + 2 s is within 50 ms of 12 s.
C1_ScenarioS1 ==
  \A c \in config.tracked :
     S1Replied(c) =>
       /\ player[c].targetTime.t = "number"
       /\ player[c].targetTime.v >= 2400 - 10
       /\ player[c].targetTime.v <= 2400 + 10

\* ------------------------------------------------------------------------
\* Playlist and validation: an admin and a viewer send good and bad payloads
\* ------------------------------------------------------------------------
PlaylistControls ==
  {[Ctl("rate") EXCEPT !.rate = Num(25)],
   [Ctl("rate") EXCEPT !.rate = Num(300)],
   [Ctl("rate") EXCEPT !.rate = Num(24)],
   [Ctl("rate") EXCEPT !.rate = Num(325)],
   [Ctl("seek") EXCEPT !.time = Num(500)],
   [Ctl("seek") EXCEPT !.time = Num(-1)],
   [Ctl("seek") EXCEPT !.time = NaN],
   [Ctl("selectTrack") EXCEPT !.type = "subtitle", !.trackIndex = Num(-1)],
   [Ctl("selectTrack") EXCEPT !.type = "audio", !.trackIndex = Num(-2)],
   [Ctl("selectTrack") EXCEPT !.type = "audio", !.trackIndex = Frac(0)],
   [NoCtl EXCEPT !.isPlaying = Bool(TRUE), !.currentTime = Num(-1)]}

PlaylistPayloads ==
  {Payload(<<>>, Num(-1), Num(0)),
   Payload(<<Item(1, TRUE, TRUE), Item(2, TRUE, TRUE)>>, Num(1), Num(2000)),
   Payload(<<Item(1, TRUE, TRUE)>>, Num(5), Num(0))}

ViewerControls ==
  {[Ctl("rate") EXCEPT !.rate = Num(325)],
   [Ctl("seek") EXCEPT !.time = Num(-1)]}

JumpIndices == {Num(0), Num(1), Num(2), Str(1), Frac(0)}

NextIndices == {Num(1), Num(5), Undefined}

Reorders ==
  {Reorder(Num(0), Num(1)), Reorder(Num(0), Num(2)), Reorder(Num(-1), Num(0)),
   Reorder(Str(1), Num(0)), Reorder(Frac(0), Num(0)),
   Reorder(Undefined, Num(1))}

TrackChanges ==
  {TrackChangeData(Num(0), "audio", Num(1)),
   TrackChangeData(Num(1), "subtitle", Num(-2)),
   TrackChangeData(Num(2), "audio", Num(0)),
   TrackChangeData(Frac(0), "audio", Num(0))}

InitPlaylist ==
  /\ \E controlsDisabled \in BOOLEAN :
        Boot(Config(TRUE, TRUE, controlsDisabled, FALSE, {}, {}, PlaylistHorizon),
             {TickPeriod})
  /\ OneRoom

NextPlaylist ==
  \/ Advance
  \/ \E data \in PlaylistControls : Control("s1", data)
  \/ \E data \in ViewerControls : Control("s2", data)
  \/ \E data \in PlaylistPayloads : SetPlaylist("s1", data)
  \/ SkipToNextVideo("s1")
  \/ \E c \in {"s1", "s2"}, index \in NextIndices : PlaylistNext(c, index)
  \/ \E index \in JumpIndices : PlaylistJump("s1", index)
  \/ \E data \in TrackChanges : TrackChange("s1", data)
  \/ \E data \in Reorders : PlaylistReorder("s1", data)

SpecPlaylist == InitPlaylist /\ [][NextPlaylist]_vars

\* The rates setRate accepts: 0.25, 0.5, ..., 3.0.
OnGrid(rate) == rate.t = "number" /\ rate.v \in {25 * k : k \in 1..12}

\* C6: a rate control is accepted only with a rate on the grid 0.25 .. 3.0;
\* an off-grid rate (0.24, 3.25) is rejected and leaves the stored rate as
\* it was, so the stored rate stays within [0.25, 3.0].
C6_RateGrid ==
  [][\A key \in RoomCodes :
       (/\ lastEvent'.ev = "control"
        /\ lastEvent'.ctl.action = "rate"
        /\ rooms[key].exists
        /\ ~OnGrid(lastEvent'.ctl.rate))
       => rooms'[key].videoState.playbackRate
            = rooms[key].videoState.playbackRate]_vars

\* An index of the range the playlist invariant allows.
IndexInRange(x, pl) == x.t = "number" /\ x.v >= -1 /\ x.v < Len(pl.videos)

\* C7: after any sequence of playlist events, -1 <= currentIndex <
\* len(items), and mainVideoIndex lies in the same range.
C7_IndexRange ==
  \A key \in RoomCodes :
     rooms[key].exists =>
       /\ IndexInRange(rooms[key].playlist.currentIndex, rooms[key].playlist)
       /\ IndexInRange(rooms[key].playlist.mainVideoIndex, rooms[key].playlist)

\* What the validation rules reject: a time that is not a finite number
\* >= 0, a playlist index that is no integer of the playlist's range, a
\* track index that is no integer >= -1.
BadTime(x) == ~(x.t \in {"number", "fraction"} /\ x.v >= 0)
BadIndex(x, pl) ==
  ~(x.t \in {"number", "string"} /\ x.v >= 0 /\ x.v < Len(pl.videos))
BadTrack(x) == ~(x.t \in {"number", "string"} /\ x.v >= -1)

Invalid(e, pl) ==
  \/ /\ e.ev = "control"
     /\ \/ e.ctl.action = "seek" /\ BadTime(e.ctl.time)
        \/ e.ctl.currentTime # Undefined /\ BadTime(e.ctl.currentTime)
        \/ e.ctl.action = "selectTrack" /\ BadTrack(e.ctl.trackIndex)
  \/ e.ev \in {"playlist-jump", "playlist-next"} /\ BadIndex(e.a, pl)
  \/ e.ev = "playlist-reorder" /\ e.wellFormed
       /\ (BadIndex(e.a, pl) \/ BadIndex(e.b, pl))
  \/ e.ev = "track-change" /\ e.wellFormed
       /\ (BadIndex(e.a, pl) \/ BadTrack(e.b))

\* C8: an event whose payload validation rejects leaves the state of the
\* room as it was.
C8_RejectedUnchanged ==
  [][\A key \in RoomCodes :
       (/\ rooms[key].exists
        /\ lastEvent'.c \in Conns
        /\ TargetOf(lastEvent'.c) = key
        /\ Invalid(lastEvent', rooms[key].playlist))
       => rooms'[key] = rooms[key]]_vars

\* ------------------------------------------------------------------------
\* The registry of rooms: three connections, two codes, every room event
\* ------------------------------------------------------------------------
\* The fingerprint each browser holds.
FpOf(c) == IF c = "s1" THEN "F1" ELSE "F2"

CodesSent == RoomCodes \cup {"aaaaaa"}

RoomDatas(c) ==
  {RoomData(code, FpOf(c)) : code \in CodesSent}
  \cup {RoomData(code, UndefFp) : code \in RoomCodes}
  \cup {NoRoomData}

CreateDatas(c) == {RoomData(NoRoomCode, FpOf(c)), NoRoomData}

RegisterDatas(c) ==
  {RoomData(code, FpOf(c)) : code \in CodesSent \cup {NoRoomCode}}
  \cup {NoRegisterData}

NameDatas == {NameData("F2", "Bob"), NameData("", "Bob"), NoNameData}

RoomsPlaylists ==
  {Payload(<<Item(1, TRUE, TRUE)>>, Num(0), Num(0)),
   Payload(<<Item(1, FALSE, TRUE)>>, Num(0), Num(0)),
   NoPayload}

\* Room AAAAAA was created by s1 and joined by s3; s2 is connected and in
\* no room yet.
RoomsReorders == {Reorder(Num(0), Num(0)), NoReorder}

RoomsTrackChanges == {TrackChangeData(Num(0), "audio", Num(1)), NoTrackChange}

InitRooms ==
  /\ Boot(Config(TRUE, TRUE, TRUE, FALSE, {}, {}, 0), {TickPeriod})
  /\ connected = Conns
  /\ rooms = [NoRooms EXCEPT !["AAAAAA"] = RoomOf("s1", "F1", "s3", "F2")]
  /\ socketRoomMap = [c \in Conns |->
                        IF c \in {"s1", "s3"} THEN "AAAAAA" ELSE NoRoomCode]
  /\ ioRooms = [key \in RoomCodes |->
                  IF key = "AAAAAA" THEN {"s1", "s3"} ELSE {}]

NextRooms ==
  \/ \E c \in Conns : \E data \in CreateDatas(c) : CreateRoom(c, data)
  \/ \E c \in Conns : \E data \in RoomDatas(c) : JoinRoom(c, data)
  \/ \E c \in Conns : LeaveRoom(c)
  \/ \E c \in Conns : \E data \in RoomDatas(c) : DeleteRoom(c, data)
  \/ \E c \in Conns : Disconnect(c)
  \/ \E c \in Conns : \E data \in RegisterDatas(c) : BslAdminRegister(c, data)
  \/ \E c \in Conns : \E data \in NameDatas : SetClientDisplayName(c, data)
  \/ \E c \in Conns : \E data \in NameDatas : SetClientName(c, data)
  \/ \E c \in Conns : GetClientList(c)
  \/ \E c \in Conns : \E data \in RoomsPlaylists : SetPlaylist(c, data)
  \/ \E c \in Conns : PlaylistJump(c, Num(0))
  \/ \E c \in Conns : SkipToNextVideo(c)
  \/ \E c \in Conns : \E data \in RoomsTrackChanges : TrackChange(c, data)
  \/ \E c \in Conns : \E data \in RoomsReorders : PlaylistReorder(c, data)

SpecRooms == InitRooms /\ [][NextRooms]_vars

\* ------------------------------------------------------------------------
\* Malformed events and the admin gate: properties
\* ------------------------------------------------------------------------
\* C9: an inbound event whose payload is malformed (no payload object,
\* missing fingerprint, missing playlist, an item without a filename) never
\* crashes the server and never disconnects its sender.
C9_MalformedHarmless ==
  [][(lastEvent'.c \in Conns /\ ~lastEvent'.wellFormed)
       => (~crashed' /\ lastEvent'.c \in connected')]_vars

\* The events of the admin gate that name no exception.
GatedEvents == ADMIN_ONLY_EVENTS \ {"create-room", "bsl-admin-register"}

\* The room an event is aimed at: the room named by delete-room, the
\* sender's room for every other event.
AimOf(e) == IF e.ev = "delete-room" THEN getRoom(e.s) ELSE TargetOf(e.c)

\* The sender is not the admin of the room the event is aimed at: for
\* delete-room the named room exists, the sender is not its admin connection
\* and does not hold its admin fingerprint; for every other event the sender
\* has no room or is not the admin connection of its room.
NotAdminOfAim(e) ==
  IF e.ev = "delete-room"
  THEN /\ AimOf(e) # NoRoomCode
       /\ rooms[AimOf(e)].adminSocketId # e.c
       /\ rooms[AimOf(e)].adminFingerprint # e.fp
  ELSE \/ AimOf(e) = NoRoomCode
       \/ rooms[AimOf(e)].adminSocketId # e.c

\* C10: a gated event from a connection that is not the admin of the room it
\* is aimed at is rejected: no room, no membership, no name changes, and the
\* server lives on.
C10_NonAdminRejected ==
  [][(lastEvent'.c \in Conns /\ lastEvent'.ev \in GatedEvents
        /\ NotAdminOfAim(lastEvent'))
       => (rooms' = rooms /\ socketRoomMap' = socketRoomMap
             /\ ioRooms' = ioRooms /\ clientDisplayNames' = clientDisplayNames
             /\ closures' = closures /\ ~crashed')]_vars

\* ------------------------------------------------------------------------
\* The fingerprint lock: registrations in every order
\* ------------------------------------------------------------------------
LockDatas ==
  {RoomData(NoRoomCode, "F1"), RoomData(NoRoomCode, "F2"),
   RoomData("AAAAAA", "F2"), NoRegisterData}

LockPlaylists == {Payload(<<Item(1, TRUE, TRUE)>>, Num(0), Num(0))}

\* ADMIN_FINGERPRINT_LOCK is on; memory.json holds an admin fingerprint or
\* none; in server mode room AAAAAA has its admin s1 and a viewer s3.
InitLock ==
  /\ \E serverMode \in BOOLEAN :
        /\ Boot(Config(serverMode, TRUE, TRUE, TRUE, {}, {}, LockHorizon),
                {TickPeriod})
        /\ \E persisted \in {"", "F1"} :
              rooms = [NoRooms EXCEPT
                         ![LEGACY].adminFingerprint = persisted,
                         ![LEGACY].memory =
                            IF persisted = "" THEN NoCipher
                            ELSE encryptData(persisted),
                         ![LEGACY].memoryFile.encrypted =
                            IF persisted = "" THEN NoCipher
                            ELSE encryptData(persisted),
                         !["AAAAAA"] = IF serverMode
                                       THEN RoomOf("s1", "F1", "s3", "F2") ELSE @]
        /\ socketRoomMap = [c \in Conns |->
                              IF serverMode /\ c \in {"s1", "s3"}
                              THEN "AAAAAA" ELSE NoRoomCode]
        /\ ioRooms = [key \in RoomCodes |->
                        IF serverMode /\ key = "AAAAAA" THEN {"s1", "s3"} ELSE {}]
  /\ connected = Conns

NextLock ==
  \/ Advance
  \/ \E c \in Conns : \E data \in LockDatas : BslAdminRegister(c, data)
  \/ \E i \in 1..MaxClosures : Kick(i)
  \/ \E c \in Conns : Disconnect(c)
  \/ \E c \in Conns : \E data \in LockPlaylists : SetPlaylist(c, data)
  \/ \E c \in Conns : GetClientList(c)

SpecLock == InitLock /\ [][NextLock]_vars

\* The registration the last step handled presented a fingerprint other
\* than the persisted one while the lock held one.
Mismatch(e, registered) ==
  /\ e.ev = "bsl-admin-register"
  /\ config.ADMIN_FINGERPRINT_LOCK
  /\ registered # ""
  /\ e.fp # registered

\* C11: with the lock on and an admin fingerprint persisted, a registration
\* presenting a different fingerprint is answered admin-auth-result
\* {success: false}, and a connection enters the verified-admin set only by
\* a registration that presents the persisted fingerprint.
C11_FingerprintLock ==
  [][/\ Mismatch(lastEvent', RegisteredFp) =>
          /\ lastEvent'.emits = <<Emit({lastEvent'.c}, AuthResult(FALSE))>>
          /\ verifiedAdminSockets' = verifiedAdminSockets
     /\ (config.ADMIN_FINGERPRINT_LOCK /\ RegisteredFp # "") =>
          \A c \in verifiedAdminSockets' \ verifiedAdminSockets :
             /\ lastEvent'.ev = "bsl-admin-register"
             /\ lastEvent'.c = c
             /\ lastEvent'.fp = RegisteredFp]_vars

\* A registration with a foreign fingerprint was turned away after another
\* connection had been verified.
C11_Witness ==
  /\ Mismatch(lastEvent, RegisteredFp)
  /\ lastEvent.fp \in Fingerprints
  /\ verifiedAdminSockets # {}
  /\ lastEvent.c \notin verifiedAdminSockets
  /\ lastEvent.emits = <<Emit({lastEvent.c}, AuthResult(FALSE))>>

\* ------------------------------------------------------------------------
\* The FFmpeg tools API under requests with and without a CSRF token
\* ------------------------------------------------------------------------
Posts(route) ==
  {Request(route, cookie, token, password, TRUE, jobId) :
     cookie \in {"", "S1"}, token \in {"", "T1", "T2"},
     password \in {"", "good", "bad"}, jobId \in {1}}
  \cup {Request(route, "S1", "T1", "good", FALSE, 0)}

InitHttp ==
  /\ \E hasPassword \in BOOLEAN :
        BootHttp(Config(TRUE, TRUE, TRUE, FALSE, {}, {}, 0), {TickPeriod},
                 hasPassword)
  /\ connected = {}
  /\ rooms = NoRooms
  /\ socketRoomMap = [c \in Conns |-> NoRoomCode]
  /\ ioRooms = [key \in RoomCodes |-> {}]

NextHttp ==
  \/ \E cookie \in {"", "S1"} : GetCsrfToken(cookie)
  \/ \E req \in Posts("POST /api/ffmpeg/run-preset") : RunPreset(req)
  \/ \E req \in Posts("POST /api/ffmpeg/cancel") : CancelJob(req)
  \/ \E i \in 1..MaxJobs : JobEnds(i)

SpecHttp == InitHttp /\ [][NextHttp]_vars

MutatingRoutes == {"POST /api/ffmpeg/run-preset", "POST /api/ffmpeg/cancel"}

\* C12: a mutating HTTP request that carries no valid (sync_session,
\* X-CSRF-Token) pair is answered 403 and creates or changes no job.
C12_Csrf ==
  [][(http'.req.route \in MutatingRoutes /\ csrfProtection(http'.req) = 403)
       => (http'.status = 403 /\ http'.ffmpegJobs = http.ffmpegJobs)]_vars

\* ------------------------------------------------------------------------
\* The admin connection of a room
\* ------------------------------------------------------------------------
\* The connections that are the admin connection of room key:
\* room.adminSocketId === socket.id for the room the socket is mapped to.
AdminConnections(key) ==
  {c \in connected : isSocketAdmin(c) /\ TargetOf(c) = key}

OrderHorizon == 1
OrderInbox == 3
OrderSeen == 3

OrderControls ==
  {[Ctl("playpause") EXCEPT !.state = Bool(TRUE)],
   [Ctl("seek") EXCEPT !.time = Num(500)]}

OrderPlaylists ==
  {Payload(<<Item(1, TRUE, TRUE), Item(2, TRUE, TRUE)>>, Num(0), Num(0)),
   Payload(<<Item(1, TRUE, FALSE)>>, Num(0), Num(2000))}

OrderEvents == {"sync", "playlist-update", "playlist-position"}

ThreeInRoom ==
  /\ connected = Conns
  /\ rooms = [NoRooms EXCEPT
                !["AAAAAA"] = [RoomOf("s1", "F1", "s2", "F2") EXCEPT
                                 !.clients["s3"] = [present |-> TRUE,
                                                    fingerprint |-> "F2"]]]
  /\ socketRoomMap = [c \in Conns |-> "AAAAAA"]
  /\ ioRooms = [key \in RoomCodes |-> IF key = "AAAAAA" THEN Conns ELSE {}]

InitOrder ==
  /\ \E autoplay \in BOOLEAN :
        Boot([Config(TRUE, autoplay, TRUE, FALSE, {"s2", "s3"}, OrderEvents,
                     OrderHorizon)
                EXCEPT !.inbox = OrderInbox, !.seen = OrderSeen],
             {TickPeriod})
  /\ ThreeInRoom

NextOrder ==
  \/ Advance
  \/ \E data \in OrderControls : Control("s1", data)
  \/ \E data \in OrderPlaylists : SetPlaylist("s1", data)
  \/ \E i \in 1..MaxClosures : SetPlaylistResume(i)
  \/ \E i \in 1..MaxClosures : RePause(i)
  \/ \E index \in {Num(0), Num(1)} : PlaylistJump("s1", index)
  \/ \E c \in {"s2", "s3"} : Deliver(c)

SpecOrder == InitOrder /\ [][NextOrder]_vars

IsPrefix(p, q) == Len(p) <= Len(q) /\ SubSeq(q, 1, Len(p)) = p

\* C14: two viewers of a room observe the broadcasts of the room in the same
\* relative order: of the histories of two viewers that were in the room
\* all along, one is the beginning of the other.
C14_Ordering ==
  \A v1, v2 \in config.tracked :
     \/ IsPrefix(player[v1].seen, player[v2].seen)
     \/ IsPrefix(player[v2].seen, player[v1].seen)

\* Both viewers have observed broadcasts of two mutations (a set-playlist
\* and a later one), one viewer being ahead of the other.
C14_Witness ==
  /\ Len(log) = 2
  /\ Len(player["s2"].seen) = 3
  /\ Len(player["s3"].seen) = 2
  /\ player["s2"].seen[2] # player["s2"].seen[3]
  /\ player["s3"].seen[1] # player["s3"].seen[2]

\* A set-playlist of room key has read the room and not yet written it.
Running(key) ==
  \E i \in 1..Len(closures) :
     closures[i].kind = "resume" /\ closures[i].key = key

\* C15: the mutations of a room run one after the other, each as one atomic
\* step: while a set-playlist of the room is between its first read and its
\* last write, no other mutation of the room takes effect.
C15_Atomic ==
  [][\A key \in AllCodes :
       (Running(key) /\ lastEvent'.accepted /\ TargetOf(lastEvent'.c) = key)
          => lastEvent'.ev = "set-playlist:resume"]_vars

\* ------------------------------------------------------------------------
\* The result of set-playlist
\* ------------------------------------------------------------------------
\* The state an accepted set-playlist(items, mainIndex, startTime) leaves.
Launched(e, room) ==
  /\ room.playlist.videos = e.items
  /\ room.playlist.currentIndex = Num(0)
  /\ room.videoState.currentTime = e.a
  /\ room.videoState.isPlaying = Bool(config.VIDEO_AUTOPLAY)
  /\ Len(e.items) > 0 =>
        room.videoState = WithTracksOf(room.videoState, e.items[1])

\* playlist-update and then sync with the state vs went to the sockets to.
SentTo(emits, to, vs) ==
  \E i, j \in 1..Len(emits) :
     /\ i < j
     /\ emits[i] = Emit(to, PlainMsg("playlist-update"))
     /\ emits[j] = Emit(to, SyncMsg(vs))

\* The sockets of a room: its socket.io group, in legacy mode everybody.
SocketsOf(key) == IF config.SERVER_MODE THEN Group(key) ELSE connected

Finished(e) ==
  e.ev \in {"set-playlist", "set-playlist:resume"} /\ e.accepted

\* C16: when an accepted set-playlist(items, mainIndex, startTime) with a
\* numeric start time finishes, the playlist of the room is items, currentIndex is 0,
\* the position is startTime, isPlaying is VIDEO_AUTOPLAY, the tracks are
\* those of the first item, and the sockets of the room have been sent
\* playlist-update and then sync with that state.
C16_SetPlaylist ==
  [][(Finished(lastEvent') /\ lastEvent'.a.t = "number") =>
        /\ Launched(lastEvent', rooms'[lastEvent'.s])
        /\ SentTo(lastEvent'.emits, SocketsOf(lastEvent'.s),
                  rooms'[lastEvent'.s].videoState)]_vars

\* ------------------------------------------------------------------------
\* BSL-S2: an admin, two viewers and a playlist of two videos
\* ------------------------------------------------------------------------
\* localStorage 'bsl-machine-fingerprint' of the page behind a socket
BslIdOf(c) == IF c = "s2" THEN "M2" ELSE "M3"

BslFileLists ==
  {<<File("a.mp4", Undefined, "")>>,
   <<File("A.MP4", Num(21), "video/mp4"), File("b.mkv", Undefined, "")>>,
   <<>>}

FolderDatas(c) ==
  {FolderData(BslIdOf(c), files) : files \in BslFileLists}
  \cup {FolderData("", <<File("a.mp4", Undefined, "")>>), NoFolderData}

ManualDatas ==
  {ManualData(v, "a.mp4", index) : v \in {"s2", "s3"}, index \in {Num(0), Num(1)}}
  \cup {NoManualData}

DriftDatas ==
  {DriftData(fp, Num(0), d) :
     fp \in {"F2", "M2"}, d \in {Num(75), Num(-100), Num(60), Num(-5), Str(30)}}
  \cup {DriftData("", Num(0), Num(5)), DriftData("F2", Num(-1), Num(5)),
        DriftData("F2", Num(1), Undefined), NoDriftData}

BslPlaylists == {Payload(<<Item(2, TRUE, TRUE)>>, Num(0), Num(0))}

BslRegistry ==
  [NoRooms EXCEPT
     !["AAAAAA"] =
        [RoomOf("s1", "F1", "s2", "F2") EXCEPT
           !.clients["s3"] = [present |-> TRUE, fingerprint |-> "F3"],
           !.playlist = [InitialPlaylist EXCEPT
                           !.videos = <<Item(1, TRUE, TRUE),
                                        Item(2, TRUE, TRUE)>>,
                           !.currentIndex = Num(0),
                           !.mainVideoIndex = Num(0)]]]

BslRoom ==
  /\ connected = Conns
  /\ rooms = BslRegistry
  /\ socketRoomMap = [c \in Conns |-> "AAAAAA"]
  /\ ioRooms = [key \in RoomCodes |-> IF key = "AAAAAA" THEN Conns ELSE {}]

InitBsl ==
  /\ \E advanced \in BOOLEAN, threshold \in {1, 3} :
        Boot([Config(TRUE, TRUE, TRUE, FALSE, {}, {}, 0) EXCEPT
                !.BSL_ADVANCED_MATCH = advanced,
                !.BSL_ADVANCED_MATCH_THRESHOLD = threshold],
             {TickPeriod})
  /\ BslRoom

NextBsl ==
  \/ \E c \in {"s2", "s3"} : \E data \in FolderDatas(c) : BslFolderSelected(c, data)
  \/ \E c \in {"s1", "s2"} : \E data \in ManualDatas : BslManualMatch(c, data)
  \/ \E c \in {"s1", "s2"} : \E data \in DriftDatas : BslSetDrift(c, data)
  \/ PlaylistReorder("s1", Reorder(Num(0), Num(1)))
  \/ \E data \in BslPlaylists : SetPlaylist("s1", data)
  \/ Disconnect("s2")

SpecBsl == InitBsl /\ [][NextBsl]_vars

\* The match of index k in status is justified by the playlist videos.
Justified(status, k, videos) ==
  LET f == status.matchedVideos[k] IN
  f # NoName =>
    /\ k < Len(videos)
    /\ videos[k + 1].hasFilename
    /\ \/ ToLowerCase(f) = ToLowerCase(FilenameOf(videos[k + 1]))
       \/ rooms[LEGACY].bslMatches[status.clientId][ToLowerCase(f)]
             = ToLowerCase(FilenameOf(videos[k + 1]))
       \/ /\ config.BSL_ADVANCED_MATCH
          /\ \E i \in 1..Len(status.files) :
                /\ status.files[i].name = f
                /\ matchScore(status.files[i], FilenameOf(videos[k + 1]))
                      >= config.BSL_ADVANCED_MATCH_THRESHOLD

\* C17: at all times, for each viewer v that reported a folder and each index
\* i with v.matches[i] = f, f is the file name of item i (case-insensitive),
\* or the persisted matches of v map f to the file name of item i, or the
\* advanced score of (f, item i) reaches the threshold.
C17_BslSymmetry ==
  \A key \in AllCodes : \A v \in Conns : \A k \in MatchKeys :
     (rooms[key].exists /\ rooms[key].clientBslStatus[v].folderSelected)
        => Justified(rooms[key].clientBslStatus[v], k, rooms[key].playlist.videos)

DriftSet(e) == e.ev = "bsl-set-drift" /\ e.accepted

\* The sockets an event sent bsl-drift-update to.
DriftRecipients(e) ==
  UNION {e.emits[i].to : i \in {j \in 1..Len(e.emits) :
                                   e.emits[j].msg.ev = "bsl-drift-update"}}

\* C18: a change of the drift of fingerprint fp sends bsl-drift-update only
\* to connections of the room whose fingerprint is fp, and leaves the
\* playback state of every room as it was.
C18_DriftIsolation ==
  [][DriftSet(lastEvent') =>
       /\ \A x \in DriftRecipients(lastEvent') :
             /\ rooms[lastEvent'.s].clients[x].present
             /\ rooms[lastEvent'.s].clients[x].fingerprint = lastEvent'.fp
       /\ \A key \in AllCodes : rooms'[key].videoState = rooms[key].videoState
       /\ \A key \in AllCodes : rooms'[key].playlist = rooms[key].playlist]_vars

\* The drift of fingerprint F2 was set: s2 was told, the admin s1 and the
\* viewer s3 of the same room were not.
C18_Witness ==
  /\ DriftSet(lastEvent)
  /\ lastEvent.fp = "F2"
  /\ DriftRecipients(lastEvent) = {"s2"}
  /\ rooms["AAAAAA"].clients["s3"].present
  /\ rooms["AAAAAA"].clientDriftValues["F2"][0] # Undefined

\* C19: after the admin sets a drift for the identity shown for a viewer
\* that reported its folder, bsl-drift-update is pushed to that viewer.
C19_DriftReaches ==
  [][DriftSet(lastEvent') =>
       \A v \in connected :
          (/\ rooms[lastEvent'.s].clientBslStatus[v].folderSelected
           /\ rooms[lastEvent'.s].clientBslStatus[v].clientId = lastEvent'.fp)
             => v \in DriftRecipients(lastEvent')]_vars

\* C20: bsl-set-drift stores the drift clamped to [-60, 60]: 75 is stored
\* as 60 and -100 as -60.
C20_DriftClamp ==
  [][(/\ lastEvent'.ev = "bsl-set-drift"
      /\ ~lastEvent'.blocked /\ lastEvent'.wellFormed
      /\ lastEvent'.s # NoRoomCode /\ lastEvent'.fp # ""
      /\ lastEvent'.b.t = "number" /\ lastEvent'.b.v \in MatchKeys
      /\ lastEvent'.a.t = "number")
       => rooms'[lastEvent'.s].clientDriftValues[lastEvent'.fp][lastEvent'.b.v]
             = Num(Clamp(lastEvent'.a.v))]_vars

\* ------------------------------------------------------------------------
\* Scenario S5: the admin deletes a room
\* ------------------------------------------------------------------------
\* The sockets an event sent the message ev to.
RecipientsOf(e, ev) ==
  UNION {e.emits[i].to : i \in {j \in 1..Len(e.emits) : e.emits[j].msg.ev = ev}}

\* C21: after a delete-room answered with success, whatever the letter case
\* of the code, every connection that was in the room has received
\* room-deleted and the room no longer exists.
C21_DeleteRoom ==
  [][(lastEvent'.ev = "delete-room" /\ lastEvent'.accepted) =>
       /\ ~rooms'[ToUpperCase(lastEvent'.s)].exists
       /\ (Members(rooms[ToUpperCase(lastEvent'.s)]) \cap connected)
             \subseteq RecipientsOf(lastEvent', "room-deleted")]_vars

\* ------------------------------------------------------------------------
\* Track selection: an admin selects tracks and moves through a playlist of
\* two videos
\* ------------------------------------------------------------------------
TracksHorizon == 1

SelectTrack(type, trackIndex) ==
  [Ctl("selectTrack") EXCEPT !.type = type, !.trackIndex = trackIndex]

TrackControls ==
  {SelectTrack("audio", Num(1)), SelectTrack("audio", Num(-1)),
   SelectTrack("subtitle", Num(0)), SelectTrack("subtitle", Num(-2))}

TrackDatas ==
  {TrackChangeData(Num(0), "audio", Num(1)),
   TrackChangeData(Num(1), "audio", Num(-1)),
   TrackChangeData(Num(1), "subtitle", Num(0)),
   TrackChangeData(Num(0), "subtitle", Num(-2))}

InitTracks ==
  /\ Boot(Config(TRUE, TRUE, TRUE, FALSE, {}, {}, TracksHorizon), {TickPeriod})
  /\ BslRoom

NextTracks ==
  \/ Advance
  \/ \E data \in TrackControls : Control("s1", data)
  \/ \E data \in TrackDatas : TrackChange("s1", data)
  \/ \E index \in {Num(0), Num(1)} : PlaylistJump("s1", index)

SpecTracks == InitTracks /\ [][NextTracks]_vars

\* An accepted control with action selectTrack and an index in range.
Selected(e) ==
  /\ e.ev = "control" /\ e.accepted
  /\ e.ctl.action = "selectTrack"
  /\ e.ctl.type \in {"audio", "subtitle"}
  /\ e.ctl.trackIndex.t = "number"
  /\ e.ctl.trackIndex.v >= (IF e.ctl.type = "audio" THEN 0 ELSE -1)

\* The item the playlist of room is at.
CurrentItem(room) == ReadVideo(room.playlist, room.playlist.currentIndex)

\* C22: an accepted selectTrack(kind, idx) updates the track of the room's
\* playback state and the selected track of the current playlist item.
C22_SelectTrackBoth ==
  [][Selected(lastEvent') =>
       LET room == rooms'[TargetOf(lastEvent'.c)]
           idx == lastEvent'.ctl.trackIndex
       IN IF lastEvent'.ctl.type = "audio"
          THEN /\ room.videoState.audioTrack = idx
               /\ CurrentItem(room).selectedAudioTrack = idx
          ELSE /\ room.videoState.subtitleTrack = idx
               /\ CurrentItem(room).selectedSubtitleTrack = idx]_vars

\* x is a track index not below min (undefined: nothing selected yet).
TrackAtLeast(x, min) ==
  x = Undefined \/ (x.t \in {"number", "string"} /\ x.v >= min)

\* C28: the audio track of the playback state and of every playlist item is
\* always >= 0 and the subtitle track always >= -1.
C28_TrackRange ==
  \A key \in AllCodes :
     rooms[key].exists =>
       /\ TrackAtLeast(rooms[key].videoState.audioTrack, 0)
       /\ TrackAtLeast(rooms[key].videoState.subtitleTrack, -1)
       /\ \A i \in 1..Len(rooms[key].playlist.videos) :
             /\ TrackAtLeast(rooms[key].playlist.videos[i].selectedAudioTrack, 0)
             /\ TrackAtLeast(rooms[key].playlist.videos[i].selectedSubtitleTrack, -1)

\* ------------------------------------------------------------------------
\* The statuses of an FFmpeg job
\* ------------------------------------------------------------------------
TerminalStatuses == {"completed", "failed", "cancelled"}

\* The steps a job may take: pending to running, running to a terminal
\* status.
JobStep(from, to) ==
  \/ from = to
  \/ from = "pending" /\ to = "running"
  \/ from = "running" /\ to \in TerminalStatuses

\* C25: every media job moves only along pending, running, then completed,
\* failed or cancelled; once it is completed, failed or cancelled its status
\* never changes again, so a job the admin cancelled stays cancelled.
C25_JobStatus ==
  [][\A i \in 1..Len(http.ffmpegJobs) :
       /\ i <= Len(http'.ffmpegJobs)
       /\ JobStep(http.ffmpegJobs[i].status, http'.ffmpegJobs[i].status)]_vars

\* ------------------------------------------------------------------------
\* consolidateTime applied twice at one instant
\* ------------------------------------------------------------------------
Once(key) == consolidateTime(rooms[key].videoState, now)
Twice(key) == consolidateTime(Once(key), now)

\* C30: consolidate is idempotent within one wall-clock tick: applied twice
\* at the same wall-clock instant it leaves position and anchor exactly as
\* after the first application, whether the room is playing or paused.
C30_Idempotent ==
  \A key \in RoomCodes :
     rooms[key].exists =>
        /\ Twice(key).currentTime = Once(key).currentTime
        /\ Twice(key).lastUpdate = Once(key).lastUpdate
        /\ Twice(key) = Once(key)

\* A playing room whose first consolidation moves the position and the
\* anchor.
C30_Witness ==
  \E key \in RoomCodes :
     /\ rooms[key].exists
     /\ Truthy(rooms[key].videoState.isPlaying)
     /\ rooms[key].videoState.lastUpdate < now
     /\ Once(key).currentTime # rooms[key].videoState.currentTime
     /\ Once(key).lastUpdate = now
     /\ Twice(key) = Once(key)

\* ------------------------------------------------------------------------
\* The fingerprint lock: the rejected connection is disconnected
\* ------------------------------------------------------------------------
\* Time passes and due timers fire: the event loop runs a timer callback
\* as soon as its delay is over.
NextLockLive ==
  \/ Advance
  \/ \E c \in Conns : \E data \in LockDatas : BslAdminRegister(c, data)
  \/ \E i \in 1..MaxClosures : Kick(i)
  \/ \E c \in Conns : Disconnect(c)

SpecLockLive ==
  /\ InitLock
  /\ [][NextLockLive]_vars
  /\ WF_vars(Advance)
  /\ WF_vars(\E i \in 1..MaxClosures : Kick(i))

\* Two seconds, in time steps: twice the delay of the timer.
KickDeadline == 2 * KickDelay

\* The last step rejected the registration of c for its fingerprint.
Rejected(c) ==
  /\ Mismatch(lastEvent, RegisteredFp)
  /\ lastEvent.fp \in Fingerprints
  /\ lastEvent.c = c
  /\ lastEvent.emits = <<Emit({c}, AuthResult(FALSE))>>

\* c is no longer connected to the server (a dead process holds no
\* connection).
Gone(c) == crashed \/ c \notin connected

\* C27: a connection rejected for presenting a different admin fingerprint
\* under the lock is eventually disconnected by the server, within 2 s of
\* the rejection (rejections early enough for the modelled time to go on
\* that long).
C27_Kicked ==
  \A c \in Conns : \A t \in 0..LockHorizon :
     (Rejected(c) /\ now = t /\ t + KickDelay <= config.horizon)
        ~> (Gone(c) /\ now <= t + KickDeadline)

\* The timer of a rejected registration has just disconnected the
\* connection, one second after the rejection.
C27_Witness ==
  /\ lastEvent.ev = "bsl-admin-register:timer"
  /\ lastEvent.c \in Conns
  /\ lastEvent.c \notin connected
  /\ ~crashed
  /\ config.ADMIN_FINGERPRINT_LOCK
  /\ RegisteredFp # ""
  /\ now = KickDelay

\* ------------------------------------------------------------------------
\* The aggregate of bsl-status-update under the modes any and all
\* ------------------------------------------------------------------------
StatusFolders(c) ==
  {FolderData(BslIdOf(c), <<File("a.mp4", Undefined, "")>>),
   FolderData(BslIdOf(c), <<File("b.mkv", Undefined, "")>>),
   FolderData(BslIdOf(c), <<File("a.mp4", Undefined, ""),
                            File("b.mkv", Undefined, "")>>),
   FolderData(BslIdOf(c), <<>>)}

StatusManuals ==
  {ManualData("s2", "a.mp4", Num(1)), ManualData("s3", "b.mkv", Num(0))}

InitStatus ==
  /\ \E mode \in {"any", "all"} :
        Boot([Config(TRUE, TRUE, TRUE, FALSE, {}, {}, 0) EXCEPT
                !.BSL_ADVANCED_MATCH = FALSE, !.BSL_S2_MODE = mode],
             {TickPeriod})
  /\ BslRoom

NextStatus ==
  \/ \E c \in {"s2", "s3"} : \E data \in StatusFolders(c) : BslFolderSelected(c, data)
  \/ \E data \in StatusManuals : BslManualMatch("s1", data)
  \/ \E c \in {"s1", "s2"} : BslGetStatus(c)
  \/ \E c \in {"s2", "s3"} : Disconnect(c)

SpecStatus == InitStatus /\ [][NextStatus]_vars

\* The viewers of a room that have reported a folder, and those of them
\* that have a match for the item at position i of the playlist.
Reporting(room) == {c \in Conns : room.clientBslStatus[c].folderSelected}
HasMatch(room, c, i) ==
  i - 1 \in MatchKeys /\ room.clientBslStatus[c].matchedVideos[i - 1] # NoName

\* The bsl-status-update messages the last step sent.
StatusUpdates(e) ==
  {e.emits[j].msg : j \in {k \in 1..Len(e.emits) :
                             e.emits[k].msg.ev = "bsl-status-update"}}

\* C24: in every bsl-status-update, under mode all an item i is reported
\* BSL-active iff every reporting viewer has a match for i, and under mode
\* any iff at least one reporting viewer has a match for i.
C24_StatusAggregate ==
  [][\A msg \in StatusUpdates(lastEvent') :
       LET room == rooms'[lastEvent'.s] IN
       /\ Len(msg.status) = Len(room.playlist.videos)
       /\ \A i \in 1..Len(msg.status) :
            msg.status[i] <=>
               IF config.BSL_S2_MODE = "all"
               THEN \A c \in Reporting(room) : HasMatch(room, c, i)
               ELSE \E c \in Reporting(room) : HasMatch(room, c, i)]_vars

\* C24 amended: under mode all an item is reported BSL-active iff at least
\* one viewer reports and every reporting viewer has a match for it; under
\* mode any iff at least one reporting viewer has a match for it.
C24_StatusAggregateAmended ==
  [][\A msg \in StatusUpdates(lastEvent') :
       LET room == rooms'[lastEvent'.s] IN
       /\ Len(msg.status) = Len(room.playlist.videos)
       /\ \A i \in 1..Len(msg.status) :
            msg.status[i] <=>
               IF config.BSL_S2_MODE = "all"
               THEN /\ Reporting(room) # {}
                    /\ \A c \in Reporting(room) : HasMatch(room, c, i)
               ELSE \E c \in Reporting(room) : HasMatch(room, c, i)]_vars

\* Under mode all a status update went out while two viewers report: both
\* have a match for the first item, only one has a match for the second.
C24_Witness ==
  /\ config.BSL_S2_MODE = "all"
  /\ lastEvent.s \in RoomCodes
  /\ Cardinality(Reporting(rooms[lastEvent.s])) = 2
  /\ \E msg \in StatusUpdates(lastEvent) :
        /\ Len(msg.status) = 2
        /\ msg.status[1]
        /\ ~msg.status[2]
        /\ \E c \in Reporting(rooms[lastEvent.s]) :
              HasMatch(rooms[lastEvent.s], c, 2)

\* ------------------------------------------------------------------------
\* The public room lists: get-rooms, rooms-updated, GET /api/rooms
\* ------------------------------------------------------------------------
CreateData(fingerprint, isPrivate) ==
  [RoomData(NoRoomCode, fingerprint) EXCEPT !.isPrivate = isPrivate]

PublicCreates(c) ==
  {CreateData(FpOf(c), isPrivate) :
     isPrivate \in {Bool(TRUE), Bool(FALSE), Undefined}}

PublicRoomDatas(c) == {RoomData(code, FpOf(c)) : code \in RoomCodes}

\* Server mode, no room yet, three connections.
InitPublic ==
  /\ Boot(Config(TRUE, TRUE, TRUE, FALSE, {}, {}, 0), {TickPeriod})
  /\ connected = Conns
  /\ rooms = NoRooms
  /\ socketRoomMap = [c \in Conns |-> NoRoomCode]
  /\ ioRooms = [key \in RoomCodes |-> {}]

NextPublic ==
  \/ \E c \in {"s1", "s2"} : \E data \in PublicCreates(c) : CreateRoom(c, data)
  \/ \E c \in Conns : \E data \in PublicRoomDatas(c) : JoinRoom(c, data)
  \/ \E c \in Conns : LeaveRoom(c)
  \/ \E c \in {"s1", "s2"} : \E data \in PublicRoomDatas(c) : DeleteRoom(c, data)
  \/ Disconnect("s3")
  \/ \E c \in {"s2", "s3"} : \E hasCallback \in BOOLEAN : GetRooms(c, hasCallback)
  \/ GetApiRooms

SpecPublic == InitPublic /\ [][NextPublic]_vars

RoomLists == {"rooms-updated", "get-rooms"}

\* The room lists the last step sent over sockets.
ListsSent(e) ==
  {e.emits[j].msg.publicRooms :
     j \in {k \in 1..Len(e.emits) : e.emits[k].msg.ev \in RoomLists}}

\* C29: get-rooms, rooms-updated and /api/rooms list exactly the non-private
\* rooms that currently exist: a private room never appears in any public
\* room list.
C29_PublicRooms ==
  [][LET public == {code \in RoomCodes :
                      rooms'[code].exists /\ ~rooms'[code].isPrivate}
     IN /\ \A list \in ListsSent(lastEvent') : list = public
        /\ (lastEvent'.ev = "GET /api/rooms" /\ http'.status = 200)
              => http'.body = public]_vars

\* A private room and a public room exist, and the last step sent a list
\* that names the public room only.
C29_Witness ==
  /\ \E code \in RoomCodes : rooms[code].exists /\ rooms[code].isPrivate
  /\ \E list \in ListsSent(lastEvent) :
        /\ list # {}
        /\ \A code \in list : rooms[code].exists /\ ~rooms[code].isPrivate

\* ------------------------------------------------------------------------
\* memory.json under the lock: the registration and the other writers
\* ------------------------------------------------------------------------
MemoryHorizon == 1

MemoryRegisters == {RoomData(NoRoomCode, "F1"), RoomData(NoRoomCode, "F2")}
MemoryNames == {NameData("F2", "Bob"), NameData("F3", "Eve")}
MemoryFolders == {FolderData("M3", <<File("a.mp4", Undefined, "")>>)}
MemoryManuals == {ManualData("s3", "a.mp4", Num(1))}

\* The server has just started with the lock on and no admin registered;
\* memory.json has its encoders field or not, and detectEncoders, called
\* when the server started to listen, has read the file and waits for
\* FFmpeg when the field is missing.
InitMemory ==
  /\ Boot(Config(TRUE, TRUE, TRUE, TRUE, {}, {}, MemoryHorizon), {TickPeriod})
  /\ connected = Conns
  /\ \E encoders \in BOOLEAN :
        rooms = [BslRegistry EXCEPT
                   ![LEGACY].memoryFile.encoders = encoders,
                   ![LEGACY].detecting.pending = ~encoders]
  /\ socketRoomMap = [c \in Conns |-> "AAAAAA"]
  /\ ioRooms = [key \in RoomCodes |-> IF key = "AAAAAA" THEN Conns ELSE {}]

NextMemory ==
  \/ Advance
  \/ \E c \in {"s1", "s2"} : \E data \in MemoryRegisters : BslAdminRegister(c, data)
  \/ \E data \in MemoryNames : SetClientName("s1", data)
  \/ \E data \in MemoryFolders : BslFolderSelected("s3", data)
  \/ \E data \in MemoryManuals : BslManualMatch("s1", data)
  \/ EncodersDetected

SpecMemory == InitMemory /\ [][NextMemory]_vars

\* C26: scenario S4, persistence: once the first admin has registered
\* fingerprint F1 under the lock, the memory file contains an encrypted field
\* that decrypts to F1, and no later write of the memory file by any writer
\* (client-name saves, BSL-match saves, the encoder detection started at
\* boot) removes or replaces it.
C26_FingerprintPersisted ==
  (config.ADMIN_FINGERPRINT_LOCK /\ RegisteredFp # "") =>
     decryptData(rooms[LEGACY].memoryFile.encrypted) = RegisteredFp

\* ------------------------------------------------------------------------
\* The rate limiter: two connections of one remote address, one local
\* ------------------------------------------------------------------------
AddressOf == [c \in Conns |-> IF c = "s3" THEN "::1" ELSE "10.0.0.1"]

\* The record of the remote address when the model starts: all but one of
\* the events of a window that has just opened are used, or the address was
\* blocked and its cooldown ends after one time step.
LimitRecords ==
  {[consumedPoints |-> POINTS - 1, expiresAt |-> LIMIT_DURATION],
   [consumedPoints |-> POINTS + 1, expiresAt |-> 1]}

\* Room AAAAAA has its admin s1 and the viewer s3; s1 and s2 share a remote
\* address; s3 is local.
InitLimit ==
  /\ Boot([Config(TRUE, TRUE, TRUE, FALSE, {}, {}, LimitHorizon) EXCEPT
             !.address = AddressOf],
          {TickPeriod})
  /\ connected = Conns
  /\ \E rec \in LimitRecords :
        rooms = [NoRooms EXCEPT
                   !["AAAAAA"] = RoomOf("s1", "F1", "s3", "F2"),
                   ![LEGACY].limiter["10.0.0.1"] = rec]
  /\ socketRoomMap = [c \in Conns |->
                        IF c \in {"s1", "s3"} THEN "AAAAAA" ELSE NoRoomCode]
  /\ ioRooms = [key \in RoomCodes |->
                  IF key = "AAAAAA" THEN {"s1", "s3"} ELSE {}]

NextLimit ==
  \/ Advance
  \/ \E c \in Conns : Packet(c, Event("leave-room", c), LeaveRoomEff(c))
  \/ \E c \in Conns :
        Packet(c, [Event("join-room", c) EXCEPT !.s = "AAAAAA", !.fp = FpOf(c)],
               JoinRoomEff(c, RoomData("AAAAAA", FpOf(c))))
  \/ \E c \in Conns : Packet(c, Event("get-rooms", c), GetRoomsEff(c, TRUE))
  \/ \E c \in Conns :
        Packet(c, [Event("get-client-list", c) EXCEPT
                     !.blocked = AdminBlocked(c, "get-client-list")],
               GetClientListEff(c))

SpecLimit == InitLimit /\ [][NextLimit]_vars

SocketEvents == {"leave-room", "join-room", "get-rooms", "get-client-list"}

\* The address has used the events of its window, or is in the cooldown
\* that the first event beyond them started.
Limited(address) ==
  /\ rooms[LEGACY].limiter[address].consumedPoints >= POINTS
  /\ now < rooms[LEGACY].limiter[address].expiresAt

\* Everything of the server but the limiter's own records.
Untouched ==
  /\ \A key \in AllCodes :
        [rooms'[key] EXCEPT !.limiter = NoLimiter]
           = [rooms[key] EXCEPT !.limiter = NoLimiter]
  /\ socketRoomMap' = socketRoomMap
  /\ ioRooms' = ioRooms
  /\ connected' = connected
  /\ verifiedAdminSockets' = verifiedAdminSockets
  /\ clientDisplayNames' = clientDisplayNames
  /\ closures' = closures
  /\ log' = log
  /\ crashed' = crashed

\* C23: once a non-loopback remote address has used its 100 events in 10 s,
\* every further event from that address during the cooldown is dropped
\* before reaching any handler (it changes no state) and its sender is sent
\* rate-limit-error; events from loopback addresses are never limited.
C23_RateLimit ==
  [][lastEvent'.ev \in SocketEvents =>
       LET address == config.address[lastEvent'.c] IN
       /\ (address \notin Loopback /\ Limited(address)) =>
             /\ Untouched
             /\ lastEvent'.emits = RateLimitError(lastEvent'.c)
       /\ address \in Loopback =>
             /\ \A i \in 1..Len(lastEvent'.emits) :
                   lastEvent'.emits[i].msg.ev # "rate-limit-error"
             /\ rooms'[LEGACY].limiter = rooms[LEGACY].limiter]_vars

\* In the cooldown of its address, a leave-room of the admin s1, a member of
\* room AAAAAA, has been answered rate-limit-error and s1 is still a member;
\* the local viewer s3 has left the room meanwhile.
C23_Witness ==
  /\ lastEvent.ev = "leave-room"
  /\ lastEvent.c = "s1"
  /\ lastEvent.emits = RateLimitError("s1")
  /\ rooms[LEGACY].limiter["10.0.0.1"].consumedPoints > POINTS + 1
  /\ now < rooms[LEGACY].limiter["10.0.0.1"].expiresAt
  /\ socketRoomMap["s1"] = "AAAAAA"
  /\ socketRoomMap["s3"] = NoRoomCode

\* ------------------------------------------------------------------------
\* Who becomes the admin connection of a room
\* ------------------------------------------------------------------------
\* C31: a connection becomes a room's admin connection only by presenting
\* that room's admin fingerprint (in create-room for a new room, or in
\* join-room or admin-register for an existing one): no event makes
\* room.adminSocketId a connection that did not present the room's admin
\* fingerprint in it.
C31_AdminByFingerprint ==
  [][\A key \in RoomCodes :
       (/\ rooms'[key].exists
        /\ rooms'[key].adminSocketId \in Conns
        /\ (~rooms[key].exists
              \/ rooms'[key].adminSocketId # rooms[key].adminSocketId))
         => /\ lastEvent'.c = rooms'[key].adminSocketId
            /\ lastEvent'.ev \in {"create-room", "join-room", "bsl-admin-register"}
            /\ lastEvent'.fp = rooms'[key].adminFingerprint]_vars

\* ------------------------------------------------------------------------
\* What a viewer's page holds once everything sent to it has been handled
\* ------------------------------------------------------------------------
\* No handler of the room is still waiting to write, and the page of c has
\* handled every event the server sent to it.
Handled(c) ==
  /\ ~crashed
  /\ closures = <<>>
  /\ inbox[c] = <<>>
  /\ player[c].synced

\* C32: once the broadcasts of the last mutation of a room are delivered and
\* handled, a viewer of the room holds the server's isPlaying and rate, also
\* when two broadcasts reached it less than 100 ms apart.
C32_ViewersConverge ==
  \A c \in config.tracked :
     (Handled(c) /\ socketRoomMap[c] \in RoomCodes
        /\ rooms[socketRoomMap[c]].exists)
       => /\ player[c].paused
               = ~Truthy(rooms[socketRoomMap[c]].videoState.isPlaying)
          /\ player[c].currentServerRate
               = RateOrDefault(rooms[socketRoomMap[c]].videoState)

\* ------------------------------------------------------------------------
\* Who pauses a room
\* ------------------------------------------------------------------------
\* The steps that are the handling of an event a client sent (a handler and
\* what it awaits), as opposed to the ticker and to a timer a handler has
\* left behind.
ClientSteps ==
  {"control", "set-playlist", "set-playlist:resume", "skip-to-next-video",
   "playlist-next", "playlist-jump"}

\* C33: once set-playlist has broadcast its sync, isPlaying changes only
\* through a later mutation a client asked for: a room that is playing is
\* paused by no step of the server's own.
C33_NoSelfPause ==
  [][\A key \in RoomCodes :
        (/\ Playing(key)
         /\ rooms'[key].exists
         /\ ~Truthy(rooms'[key].videoState.isPlaying))
          => lastEvent'.ev \in ClientSteps]_vars

\* ------------------------------------------------------------------------
\* Membership of rooms
\* ------------------------------------------------------------------------
\* The room recorded for c is the only room whose clients map or broadcast
\* group holds c.
SoleMembership(c, registry, map, groups) ==
  \A key \in RoomCodes :
     (\/ registry[key].exists /\ registry[key].clients[c].present
      \/ c \in groups[key])
       => map[c] = key

MembershipEvents ==
  {"create-room", "join-room", "leave-room", "bsl-admin-register",
   "disconnect"}

\* C34: a connection is a member of at most one room at a time: a
\* create-room, join-room, leave-room, admin-register or disconnect of a
\* connection that was recorded in no room but its own leaves it so.
C34_OneRoomAtATime ==
  [][\A c \in Conns :
        (/\ SoleMembership(c, rooms, socketRoomMap, ioRooms)
         /\ lastEvent'.ev \in MembershipEvents
         /\ lastEvent'.c = c)
          => SoleMembership(c, rooms', socketRoomMap', ioRooms')]_vars

\* ------------------------------------------------------------------------
\* Who moves the playlist
\* ------------------------------------------------------------------------
\* C35: only the admin of a room changes its current playlist item: no
\* event of another connection changes currentIndex, and none but a control
\* reloads the track selections.
C35_AdminMovesPlaylist ==
  [][\A key \in RoomCodes :
        (/\ rooms[key].exists /\ rooms'[key].exists
         /\ lastEvent'.c \in Conns
         /\ lastEvent'.c # rooms[key].adminSocketId)
          => /\ rooms'[key].playlist.currentIndex
                  = rooms[key].playlist.currentIndex
             /\ lastEvent'.ev # "control"
                  => /\ rooms'[key].videoState.audioTrack
                          = rooms[key].videoState.audioTrack
                     /\ rooms'[key].videoState.subtitleTrack
                          = rooms[key].videoState.subtitleTrack]_vars

\* ------------------------------------------------------------------------
\* State pushes: controls with no action, in server mode and in legacy mode
\* ------------------------------------------------------------------------
PushHorizon == 1

PushControls ==
  {NoCtl,
   [NoCtl EXCEPT !.isPlaying = Bool(TRUE), !.currentTime = Num(1000)],
   [Ctl("playpause") EXCEPT !.state = Bool(TRUE)],
   [Ctl("skip") EXCEPT !.direction = "forward", !.seconds = Num(-4000)],
   [Ctl("skip") EXCEPT !.direction = "back", !.seconds = Str(200)]}

PushPlaylists ==
  {Payload(<<Item(1, TRUE, FALSE)>>, Num(0), Num(2000)),
   Payload(<<Item(1, TRUE, TRUE)>>, Num(0), Num(-200)),
   Payload(<<Item(1, TRUE, TRUE)>>, Num(0), Undefined)}

\* Server mode: room AAAAAA with its admin s1 and a viewer s2.  Legacy
\* mode: s1 and s2 are connected, s1 is the verified admin.
InitPush ==
  /\ \E serverMode, autoplay, syncDisabled \in BOOLEAN :
        /\ Boot([Config(serverMode, autoplay, FALSE, FALSE, {}, {},
                        PushHorizon)
                   EXCEPT !.CLIENT_SYNC_DISABLED = syncDisabled],
                {1})
        /\ rooms = [NoRooms EXCEPT
                      !["AAAAAA"] = IF serverMode
                                    THEN RoomOf("s1", "F1", "s2", "F2") ELSE @]
        /\ socketRoomMap = [c \in Conns |->
                              IF serverMode /\ c \in {"s1", "s2"}
                              THEN "AAAAAA" ELSE NoRoomCode]
        /\ ioRooms = [key \in RoomCodes |->
                        IF serverMode /\ key = "AAAAAA"
                        THEN {"s1", "s2"} ELSE {}]
  /\ connected = {"s1", "s2"}

NextPush ==
  \/ Advance
  \/ syncInterval
  \/ \E c \in {"s1", "s2"} : \E data \in PushControls : Control(c, data)
  \/ \E data \in PushPlaylists : SetPlaylist("s1", data)
  \/ \E i \in 1..MaxClosures : SetPlaylistResume(i)
  \/ \E i \in 1..MaxClosures : RePause(i)
  \/ \E c \in {"s1", "s2"} : RequestSync(c)

SpecPush == InitPush /\ [][NextPush]_vars

\* ------------------------------------------------------------------------
\* The position is a number
\* ------------------------------------------------------------------------
\* C36: after any sequence of accepted events the position of every room is
\* a finite number that is not negative.
C36_PositionFinite ==
  \A key \in RoomCodes :
     rooms[key].exists
       => /\ rooms[key].videoState.currentTime.t = "number"
          /\ rooms[key].videoState.currentTime.v >= 0

\* ------------------------------------------------------------------------
\* CLIENT_SYNC_DISABLED
\* ------------------------------------------------------------------------
\* C38: with CLIENT_SYNC_DISABLED on, a control with no action is ignored,
\* in server mode and in legacy mode alike: it changes no state and sends
\* nothing.
C38_PushDisabled ==
  [][(/\ lastEvent'.ev = "control"
      /\ lastEvent'.ctl.action = ""
      /\ config.CLIENT_SYNC_DISABLED)
       => /\ rooms' = rooms
          /\ lastEvent'.emits = <<>>
          /\ ~lastEvent'.accepted]_vars

\* ------------------------------------------------------------------------
\* The state object set-playlist writes
\* ------------------------------------------------------------------------
\* C40: every sync that the continuation of a set-playlist or its delayed
\* re-pause broadcasts carries the state of the room as request-sync and the
\* ticker read it right after, even if a control with no action has
\* replaced the state object meanwhile.
C40_SyncIsAuthoritative ==
  [][(/\ lastEvent'.ev \in {"set-playlist", "set-playlist:resume",
                            "set-playlist:timer"}
      /\ lastEvent'.s \in AllCodes
      /\ rooms'[lastEvent'.s].exists)
       => \A i \in 1..Len(lastEvent'.emits) :
             lastEvent'.emits[i].msg.ev = "sync"
               => lastEvent'.emits[i].msg.vs
                    = rooms'[lastEvent'.s].videoState]_vars

\* ------------------------------------------------------------------------
\* playlist-next and playlist-jump
\* ------------------------------------------------------------------------
\* C37: playlist-next with index i does what playlist-jump with index i
\* does: from every state the admin's event leaves the same rooms and sends
\* the same broadcasts, and both are ignored when i is out of range.
C37_NextIsJump ==
  \A index \in JumpIndices \cup NextIndices :
     LET admin == rooms["AAAAAA"].adminSocketId IN
     (~crashed /\ rooms["AAAAAA"].exists /\ admin \in connected)
       => /\ PlaylistNextEff(admin, index).rooms
               = PlaylistJumpEff(admin, index).rooms
          /\ PlaylistNextEff(admin, index).emits
               = PlaylistJumpEff(admin, index).emits

\* ------------------------------------------------------------------------
\* io.on('connection'): the legacy initialization of a new socket
\* ------------------------------------------------------------------------
\* _getTrackSelections(playlist): the selections of the current item, or
\* the defaults, written to the state vs; reading a missing item throws.
SelectionThrows(pl) ==
  /\ Len(pl.videos) > 0 /\ JsGe(pl.currentIndex, 0)
  /\ JsLt(pl.currentIndex, Len(pl.videos))
  /\ ReadVideo(pl, pl.currentIndex) = UndefItem

getTrackSelections(pl, vs) ==
  IF Len(pl.videos) > 0 /\ JsGe(pl.currentIndex, 0)
     /\ JsLt(pl.currentIndex, Len(pl.videos))
  THEN WithTracksOf(vs, ReadVideo(pl, pl.currentIndex))
  ELSE [vs EXCEPT !.audioTrack = Num(0), !.subtitleTrack = Num(-1)]

ConnectionEff(c) ==
  LET all == connected \cup {c}
      here == [Eff0 EXCEPT !.connected = all]
      tracks == getTrackSelections(rooms[LEGACY].playlist,
                                   rooms[LEGACY].videoState)
      reset == [tracks EXCEPT !.currentTime = Num(0), !.lastUpdate = now]
  IN IF config.SERVER_MODE THEN here
     ELSE IF SelectionThrows(rooms[LEGACY].playlist)
     THEN [here EXCEPT !.crash = TRUE]
     ELSE IF config.JOIN_MODE = "reset"
     THEN [here EXCEPT
             !.rooms[LEGACY].videoState = reset,
             !.emits = <<Emit(all, PlainMsg("client-count")),
                         Emit({c}, PlainMsg("config")),
                         Emit({c}, PlainMsg("playlist-update")),
                         Emit(all, SyncMsg(reset))>>]
     ELSE [here EXCEPT
             !.rooms[LEGACY].videoState = tracks,
             !.emits = <<Emit(all, PlainMsg("client-count")),
                         Emit({c}, PlainMsg("config")),
                         Emit({c}, PlainMsg("playlist-update")),
                         Emit({c}, SyncMsg(tracks))>>]

Connection(c) ==
  /\ ~crashed
  /\ c \notin connected
  /\ Apply(Event("connection", c), ConnectionEff(c))

\* ------------------------------------------------------------------------
\* Joining in legacy mode: an admin, viewers that come and go
\* ------------------------------------------------------------------------
JoinHorizon == 1

JoinControls ==
  {[Ctl("selectTrack") EXCEPT !.type = "audio", !.trackIndex = Num(1)],
   [Ctl("playpause") EXCEPT !.state = Bool(FALSE)],
   [Ctl("seek") EXCEPT !.time = Num(500)]}

JoinPlaylists ==
  {Payload(<<Item(1, TRUE, TRUE), Item(2, TRUE, TRUE)>>, Num(0), Num(0))}

InitJoin ==
  /\ \E joinMode \in {"sync", "reset"} :
        Boot([Config(FALSE, TRUE, FALSE, FALSE, {}, {}, JoinHorizon)
                EXCEPT !.JOIN_MODE = joinMode],
             {TickPeriod})
  /\ rooms = NoRooms
  /\ socketRoomMap = [c \in Conns |-> NoRoomCode]
  /\ ioRooms = [key \in RoomCodes |-> {}]
  /\ connected = {}

NextJoin ==
  \/ Advance
  \/ \E c \in Conns : Connection(c)
  \/ \E c \in Conns : Disconnect(c)
  \/ BslAdminRegister("s1", RoomData(NoRoomCode, "F1"))
  \/ \E data \in JoinPlaylists : SetPlaylist("s1", data)
  \/ \E c \in Conns : \E data \in JoinControls : Control(c, data)
  \/ PlaylistJump("s1", Num(1))

SpecJoin == InitJoin /\ [][NextJoin]_vars

\* C39: in sync join mode a connecting viewer changes nothing in the shared
\* playback state, and only the joiner is sent the state.
C39_JoinChangesNothing ==
  [][(lastEvent'.ev = "connection" /\ config.JOIN_MODE = "sync" /\ ~crashed')
       => /\ rooms'[LEGACY].videoState = rooms[LEGACY].videoState
          /\ \A i \in 1..Len(lastEvent'.emits) :
                lastEvent'.emits[i].msg.ev = "sync"
                  => lastEvent'.emits[i].to = {lastEvent'.c}]_vars
====
